---- MODULE Spec2Model ----
(***************************************************************************)
(* State-machine model of the rental-listing explorer (demo_map):          *)
(* FilterManager (filters.js), MapManager (map.js), CardRenderer           *)
(* (cards.js) and the view controller of app.js.                           *)
(*                                                                         *)
(* Strings that the code inspects character by character (addresses,       *)
(* search text, university names) are sequences of one-character strings.  *)
(* Strings that the code only compares for equality (property type,        *)
(* amenity tag) are TLA+ strings.                                          *)
(***************************************************************************)
EXTENDS Integers, Sequences, FiniteSets, TLC

\* ------------------------------------------------------------------------
\* JavaScript values
\* ------------------------------------------------------------------------

\* A value of a numeric field: a finite number, NaN, Infinity or null.
Num(n) == [kind |-> "number", val |-> n]
NaN == [kind |-> "NaN", val |-> 0]
Infinity == [kind |-> "Infinity", val |-> 0]
Null == [kind |-> "null", val |-> 0]

\* ToNumber on the values the model holds: null converts to 0.
ToNumber(v) == IF v = Null THEN Num(0) ELSE v

\* a < b in JavaScript: every comparison with NaN is false.
JsLt(a, b) ==
    LET x == ToNumber(a)
        y == ToNumber(b)
    IN  IF x = NaN \/ y = NaN THEN FALSE
        ELSE IF x = Infinity THEN FALSE
        ELSE IF y = Infinity THEN TRUE
        ELSE x.val < y.val

\* a > b in JavaScript.
JsGt(a, b) == JsLt(b, a)

\* a <= b in JavaScript: false when either side is NaN.
JsLe(a, b) ==
    LET x == ToNumber(a)
        y == ToNumber(b)
    IN  IF x = NaN \/ y = NaN THEN FALSE
        ELSE IF y = Infinity THEN TRUE
        ELSE IF x = Infinity THEN FALSE
        ELSE x.val <= y.val

\* ------------------------------------------------------------------------
\* String primitives (String.prototype.*), on sequences of characters
\* ------------------------------------------------------------------------

UpperCase == <<"A","B","C","D","E","F","G","H","I","J","K","L","M",
               "N","O","P","Q","R","S","T","U","V","W","X","Y","Z">>
LowerCase == <<"a","b","c","d","e","f","g","h","i","j","k","l","m",
               "n","o","p","q","r","s","t","u","v","w","x","y","z">>
Digits == {"0","1","2","3","4","5","6","7","8","9"}

LowerOf == [c \in {UpperCase[i] : i \in 1..26} |->
               LowerCase[CHOOSE i \in 1..26 : UpperCase[i] = c]]

ToLowerChar(c) == IF c \in DOMAIN LowerOf THEN LowerOf[c] ELSE c

toLowerCase(s) == [i \in 1..Len(s) |-> ToLowerChar(s[i])]

\* s.includes(q)
includes(s, q) ==
    \E i \in 0..(Len(s) - Len(q)) : SubSeq(s, i + 1, i + Len(q)) = q

\* s.trim(): the only white space of the model is the space character.
trim(s) ==
    IF \A i \in 1..Len(s) : s[i] = " " THEN <<>>
    ELSE SubSeq(s, CHOOSE i \in 1..Len(s) : s[i] # " " /\ \A j \in 1..(i - 1) : s[j] = " ",
                   CHOOSE i \in 1..Len(s) : s[i] # " " /\ \A j \in (i + 1)..Len(s) : s[j] = " ")

\* s.split(','): the segments between the commas, in order.
split(s) ==
    LET IsComma(i) == s[i] = ","
        commas == SelectSeq([i \in 1..Len(s) |-> i], IsComma)
        cuts == <<0>> \o commas \o <<Len(s) + 1>>
    IN  [n \in 1..(Len(cuts) - 1) |-> SubSeq(s, cuts[n] + 1, cuts[n + 1] - 1)]

\* /\d{5}$/: the last five characters when the string ends in five digits.
ZipLen == 5

matchZip(s) ==
    IF Len(s) >= ZipLen /\ \A i \in (Len(s) - ZipLen + 1)..Len(s) : s[i] \in Digits
    THEN SubSeq(s, Len(s) - ZipLen + 1, Len(s))
    ELSE <<>>

\* ------------------------------------------------------------------------
\* Data: the listing and university collections held by app.js
\* ------------------------------------------------------------------------

Addr1 == <<"1"," ","E","l","m",","," ","O","j","a","i",","," ","C","A"," ","9","3","0","2","3">>
Addr2 == <<"2"," ","O","a","k",","," ","B","r","e","a",","," ","C","A"," ","9","2","8","2","1">>
Addr3 == <<"P","O"," ","B","o","x"," ","9">>
Addr4 == <<"5"," ","F","i","r"," ",","," ","O","j","a","i"," ",",","C","A"," ","9","3","0","2","3","5">>

\* A listing as fetchListings returns it: price is parseFloat(price), which is NaN
\* for an unparsable price; sqft is parseInt(sqft) or null; lat and lng are
\* parseFloat of the coordinates, NaN when the listing has none.
Listing(id, price, address, bedrooms, bathrooms, sqft, type, amenities, lat, lng) ==
    [id |-> id, price |-> price, address |-> address, bedrooms |-> bedrooms,
     bathrooms |-> bathrooms, sqft |-> sqft, type |-> type, amenities |-> amenities,
     lat |-> lat, lng |-> lng]

\* The collection the model loads: two listings of equal price, one listing without
\* coordinates, types and amenities that differ.
Catalog ==
    << Listing(1, Num(1500), Addr1, 1, 1, Num(650), "Apartment", <<"Pool", "Gym">>, Num(1), Num(1)),
       Listing(2, Num(1500), Addr2, 2, 2, Num(900), "House", <<"Pool">>, Num(3), Num(3)),
       Listing(3, Num(900), Addr3, 0, 1, Num(500), "Apartment", <<>>, NaN, NaN) >>

University(name, fullName, lat, lng) ==
    [name |-> name, fullName |-> fullName, lat |-> lat, lng |-> lng]

CSUN == University(<<"C","S","U","N">>, <<"C","a","l"," ","S","t","a","t","e"," ","N","o","r","t","h","r","i","d","g","e">>, Num(1), Num(1))
UCLA == University(<<"U","C","L","A">>, <<"U","C"," ","L","o","s"," ","A","n","g","e","l","e","s">>, Num(3), Num(3))

Campuses == << UCLA, CSUN >>

\* ------------------------------------------------------------------------
\* FilterManager: parsing helpers and the filter evaluator
\* ------------------------------------------------------------------------

\* The filter state of the constructor and of _resetAll.
DefaultState ==
    [searchQuery |-> <<>>, types |-> {}, minBeds |-> 0, minBaths |-> 0,
     priceMin |-> Num(0), priceMax |-> Infinity,
     sqftMin |-> Num(0), sqftMax |-> Infinity, amenities |-> {}]

\* _parseCity, were it to take the first comma-separated segment.
_parseCityFirstSegment(address) ==
    LET parts == split(address)
    IN  IF Len(parts) >= 2 THEN trim(parts[1]) ELSE <<>>

_parseCity(address) ==
    LET parts == split(address)
    IN  IF Len(parts) >= 2 THEN trim(parts[2]) ELSE <<>>

_parseZip(address) == matchZip(address)

\* array.includes(x)
has(array, x) == \E i \in 1..Len(array) : array[i] = x

\* A search rule that looks at the parsed city alone.
searchMissesCityOnly(st, listing) ==
    ~includes(toLowerCase(_parseCity(listing.address)), st.searchQuery)

\* The condition of the search rule: neither the parsed city nor the parsed zip nor
\* the address contains the query.
searchMisses(st, listing) ==
    LET city == toLowerCase(_parseCity(listing.address))
        zip == _parseZip(listing.address)
        addr == toLowerCase(listing.address)
        query == st.searchQuery
    IN  ~includes(city, query) /\ ~includes(zip, query) /\ ~includes(addr, query)

\* An amenity rule that asks for one of the selected amenities.
lacksAmenityAll(st, listing) ==
    \A amenity \in st.amenities : ~has(listing.amenities, amenity)

\* The loop of the amenity rule: some selected amenity is not among the tags.
lacksAmenity(st, listing) ==
    \E amenity \in st.amenities : ~has(listing.amenities, amenity)

\* The callback of listings.filter in applyFilters: the early returns in the order
\* of the code.
passesFilters(st, listing) ==
    IF st.searchQuery # <<>> /\ searchMisses(st, listing) THEN FALSE
    ELSE IF st.types # {} /\ listing.type \notin st.types THEN FALSE
    ELSE IF listing.bedrooms < st.minBeds THEN FALSE
    ELSE IF listing.bathrooms < st.minBaths THEN FALSE
    ELSE IF JsLt(listing.price, st.priceMin) THEN FALSE
    ELSE IF JsGt(listing.price, st.priceMax) THEN FALSE
    ELSE IF JsLt(listing.sqft, st.sqftMin) THEN FALSE
    ELSE IF JsGt(listing.sqft, st.sqftMax) THEN FALSE
    ELSE IF st.amenities # {} /\ lacksAmenity(st, listing) THEN FALSE
    ELSE TRUE

\* Array.prototype.filter: the elements that satisfy Test, in their order.
filter(array, Test(_)) == SelectSeq(array, Test)

applyFilters(st, listings) ==
    LET Keep(listing) == passesFilters(st, listing)
    IN  filter(listings, Keep)

\* array.map(l => l.id) as a Set
idSet(listings) == {listings[i].id : i \in 1..Len(listings)}

\* A getPassingIds that misses the first listing of the collection.
getPassingIdsOffByOne(st, all) == idSet(applyFilters(st, Tail(all)))

getPassingIds(st, all) == idSet(applyFilters(st, all))

\* getSearchMatches, were it to go through the whole filter.
getSearchMatchesFiltered(st, all) == applyFilters(st, all)

getSearchMatches(st, all) ==
    LET query == st.searchQuery
        Match(listing) ==
            LET city == toLowerCase(_parseCity(listing.address))
                zip == _parseZip(listing.address)
                addr == toLowerCase(listing.address)
            IN  includes(city, query) \/ includes(zip, query) \/ includes(addr, query)
    IN  IF st.searchQuery = <<>> THEN <<>> ELSE filter(all, Match)

\* ------------------------------------------------------------------------
\* FilterManager: derived option lists and the autocomplete catalog
\* ------------------------------------------------------------------------

\* The characters of the model in UTF-16 code-unit order (the order of the default
\* Array.prototype.sort).
CharOrder == <<" ", ",", "-", "0","1","2","3","4","5","6","7","8","9">> \o UpperCase \o LowerCase

CharRank == [c \in {CharOrder[i] : i \in 1..Len(CharOrder)} |->
                CHOOSE i \in 1..Len(CharOrder) : CharOrder[i] = c]

CharCode(c) == CharRank[c]

\* a sorts before b in the default sort of strings.
StrLess(a, b) ==
    \E k \in 1..(Len(b)) :
        /\ \A j \in 1..(k - 1) : j <= Len(a) /\ a[j] = b[j]
        /\ \/ k = Len(a) + 1
           \/ k <= Len(a) /\ CharCode(a[k]) < CharCode(b[k])

\* [...new Set(values)].sort(): the distinct values in ascending order.
sortedUnique(values) ==
    LET n == Cardinality(values)
    IN  [i \in 1..n |->
            CHOOSE v \in values : Cardinality({w \in values : StrLess(w, v)}) = i - 1]

allTypes(all) == {all[i].type : i \in 1..Len(all)}
allAmenities(all) == UNION {{all[i].amenities[j] : j \in 1..Len(all[i].amenities)} : i \in 1..Len(all)}
allCities(all) == sortedUnique({_parseCity(all[i].address) : i \in 1..Len(all)})
allZips(all) == sortedUnique({_parseZip(all[i].address) : i \in 1..Len(all)})

\* One entry of the suggestion catalog; uniName is empty except for a campus.
Suggestion(text, searchValue, uniName) ==
    [text |-> text, searchValue |-> searchValue, uniName |-> uniName]

\* The " - " between a campus name and its full name stands for the dash of the code.
_buildSuggestions(all, unis) ==
    LET cities == allCities(all)
        zips == allZips(all)
    IN  [i \in 1..Len(unis) |->
            Suggestion(unis[i].name \o <<" ", "-", " ">> \o unis[i].fullName,
                       toLowerCase(unis[i].name) \o <<" ">> \o toLowerCase(unis[i].fullName),
                       unis[i].name)]
        \o [i \in 1..Len(cities) |-> Suggestion(cities[i], toLowerCase(cities[i]), <<>>)]
        \o [i \in 1..Len(zips) |-> Suggestion(zips[i], zips[i], <<>>)]
        \o [i \in 1..Len(all) |-> Suggestion(all[i].address, toLowerCase(all[i].address), <<>>)]

\* The number of suggestions the dropdown shows at most.
SuggestionLimit == 6

\* array.slice(0, limit)
sliceTo(array, limit) == SubSeq(array, 1, IF Len(array) < limit THEN Len(array) ELSE limit)

_matchSuggestions(all, unis, query) ==
    LET q == toLowerCase(query)
        Match(s) == includes(toLowerCase(s.text), q) \/ includes(s.searchValue, q)
    IN  IF query = <<>> THEN <<>>
        ELSE sliceTo(filter(_buildSuggestions(all, unis), Match), SuggestionLimit)

\* The dropdown after _showAutocomplete(query): the matches, or nothing when there
\* is none (_hideAutocomplete).
_showAutocomplete(all, unis, query) ==
    LET matches == _matchSuggestions(all, unis, query)
    IN  [i \in 1..Len(matches) |-> [value |-> matches[i].searchValue, uni |-> matches[i].uniName]]

\* The chips of _getActiveChips: << key, value >> pairs; value is "" for the
\* chips that carry none.
_getActiveChips(st) ==
    {<<"type", t>> : t \in st.types}
    \cup (IF st.minBeds > 0 THEN {<<"beds", "">>} ELSE {})
    \cup (IF st.minBaths > 0 THEN {<<"baths", "">>} ELSE {})
    \cup (IF JsGt(st.priceMin, Num(0)) \/ JsLt(st.priceMax, Infinity) THEN {<<"price", "">>} ELSE {})
    \cup (IF JsGt(st.sqftMin, Num(0)) \/ JsLt(st.sqftMax, Infinity) THEN {<<"sqft", "">>} ELSE {})
    \cup {<<"amenity", a>> : a \in st.amenities}

\* parseInt(s, 10) of an input value: the number its leading digits spell, NaN when
\* it starts with no digit.
DigitValue(c) == CHOOSE d \in 0..9 : CharOrder[d + 4] = c

RECURSIVE parseDigits(_, _)
parseDigits(s, acc) ==
    IF s = <<>> \/ Head(s) \notin Digits THEN acc
    ELSE parseDigits(Tail(s), 10 * acc + DigitValue(Head(s)))

parseInt(s) ==
    IF s = <<>> \/ Head(s) \notin Digits THEN NaN ELSE Num(parseDigits(s, 0))

\* ------------------------------------------------------------------------
\* CardRenderer.render: the order of the cards
\* ------------------------------------------------------------------------

\* The comparator (a, b) => a.price - b.price as sort reads it: negative, zero or
\* positive; a NaN difference counts as zero.
comparePrice(a, b) ==
    IF a.price = NaN \/ b.price = NaN THEN 0
    ELSE IF a.price.val < b.price.val THEN -1
    ELSE IF a.price.val > b.price.val THEN 1
    ELSE 0

\* Insert x behind every element that does not sort after it (a stable insertion).
RECURSIVE insertSorted(_, _)
insertSorted(sorted, x) ==
    IF sorted = <<>> THEN <<x>>
    ELSE IF comparePrice(Head(sorted), x) <= 0
         THEN <<Head(sorted)>> \o insertSorted(Tail(sorted), x)
         ELSE <<x>> \o sorted

RECURSIVE stableSort(_)
stableSort(array) ==
    IF array = <<>> THEN <<>>
    ELSE insertSorted(stableSort(SubSeq(array, 1, Len(array) - 1)), array[Len(array)])

\* The comparator is consistent (it orders the elements) unless a NaN price
\* compares equal to two prices that differ.
consistentComparator(array) ==
    \/ \A i \in 1..Len(array) : array[i].price # NaN
    \/ \A i, j \in 1..Len(array) :
          array[i].price # NaN /\ array[j].price # NaN => array[i].price = array[j].price

permutations(array) ==
    {[i \in 1..Len(array) |-> array[p[i]]] :
        p \in {q \in [1..Len(array) -> 1..Len(array)] :
                 \A i, j \in 1..Len(array) : q[i] = q[j] => i = j}}

\* [...listings].sort(comparator): sort is stable for a consistent comparator; for
\* an inconsistent one the order is implementation-defined.
sortOutcomes(array) ==
    IF consistentComparator(array) THEN {stableSort(array)} ELSE permutations(array)

\* array.map(l => l.id)
ids(array) == [i \in 1..Len(array) |-> array[i].id]

\* _createCard(listing) throws a TypeError at listing.sqft.toLocaleString() when
\* sqft is null.
_createCardThrows(listing) == listing.sqft = Null

\* The cards sorted.forEach has appended when it ends: all of them, or those before
\* the first listing on which _createCard throws.
appended(sorted) ==
    IF \E k \in 1..Len(sorted) : _createCardThrows(sorted[k])
    THEN SubSeq(sorted, 1, (CHOOSE k \in 1..Len(sorted) :
                               /\ _createCardThrows(sorted[k])
                               /\ \A j \in 1..(k - 1) : ~_createCardThrows(sorted[j])) - 1)
    ELSE sorted

\* What render(listings) can leave behind: the number in the count label, whether
\* the container shows the placeholder, the cards in display order, and whether
\* the call ended in an exception.
renderOutcomes(listings) ==
    IF Len(listings) = 0
    THEN {[count |-> 0, placeholder |-> TRUE, cards |-> <<>>, threw |-> FALSE]}
    ELSE {[count |-> Len(listings), placeholder |-> FALSE, cards |-> ids(appended(sorted)),
           threw |-> Len(appended(sorted)) < Len(sorted)] : sorted \in sortOutcomes(listings)}

\* The cards render can leave in the container.
render(listings) == {o.cards : o \in renderOutcomes(listings)}

\* ------------------------------------------------------------------------
\* MapManager: viewport and price markers
\* ------------------------------------------------------------------------

\* map.getBounds() before the map has its first viewport.
Undefined == [kind |-> "undefined"]

Viewport(south, north, west, east) ==
    [south |-> south, north |-> north, west |-> west, east |-> east]

\* The viewports the map can settle on.
MaxCoord == 4
Viewports == {Viewport(0, 2, 0, 2), Viewport(0, MaxCoord, 0, MaxCoord)}

\* bounds.contains(new LatLng(lat, lng)): a NaN coordinate is in no bounds.
contains(b, lat, lng) ==
    /\ lat # NaN /\ lng # NaN
    /\ b.south <= lat.val /\ lat.val <= b.north
    /\ b.west <= lng.val /\ lng.val <= b.east

\* _buildInfoWindowHTML(listing) throws a TypeError at listing.sqft.toLocaleString()
\* when sqft is null.
_buildInfoWindowHTMLThrows(listing) == listing.sqft = Null

\* addListingMarkers ends in an exception at the first listing without sqft.
addListingMarkersThrows(listings) ==
    \E k \in 1..Len(listings) : _buildInfoWindowHTMLThrows(listings[k])

\* A marker placement that skips the listings whose coordinates are not numbers.
addListingMarkersSkipping(listings) ==
    SelectSeq(listings, LAMBDA l : l.lat # NaN /\ l.lng # NaN)

\* addListingMarkers: one price marker per listing, whatever its coordinates are;
\* the markers pushed before an exception stay in the list.
addListingMarkers(listings) ==
    IF addListingMarkersThrows(listings)
    THEN SubSeq(listings, 1, (CHOOSE k \in 1..Len(listings) :
                                 /\ _buildInfoWindowHTMLThrows(listings[k])
                                 /\ \A j \in 1..(k - 1) :
                                       ~_buildInfoWindowHTMLThrows(listings[j])) - 1)
    ELSE listings

getVisibleListings(b, markers) ==
    LET Inside(listing) == contains(b, listing.lat, listing.lng)
    IN  IF b = Undefined THEN <<>> ELSE filter(markers, Inside)

\* An updateMarkerVisibility that toggles the class on the markers that pass.
updateMarkerVisibilityInverted(markers, divs, filteredBefore, passingIds) ==
    (filteredBefore \ (idSet(markers) \cap divs))
    \cup {id \in idSet(markers) \cap divs : id \in passingIds}

\* updateMarkerVisibility: the markers that carry price-marker--filtered afterwards.
\* Only a marker with a DOM element is toggled.
updateMarkerVisibility(markers, divs, filteredBefore, passingIds) ==
    (filteredBefore \ (idSet(markers) \cap divs))
    \cup {id \in idSet(markers) \cap divs : id \notin passingIds}

\* ------------------------------------------------------------------------
\* State
\* ------------------------------------------------------------------------

VARIABLES
    LISTINGS,               \* app.js: the listing collection
    UNIVERSITIES,           \* app.js: the university collection
    state,                  \* FilterManager.state
    searchInput,            \* the value of the #filter-search input
    acItems,                \* the items of the autocomplete dropdown (data-value, data-uni)
    _targetUniversity,      \* FilterManager._targetUniversity
    _searchDebounceTimer,   \* FilterManager._searchDebounceTimer: a timer id, or NoTimer
    timers,                 \* the pending timeouts: [id, remaining (ms)]
    targetNames,            \* listing id -> the listing's _targetName (<<>>: not set)
    bounds,                 \* map.getBounds()
    priceMarkers,           \* MapManager.priceMarkers: the listing of each marker
    markerDivs,             \* ids of the price markers whose overlay has its div
    filteredMarkers,        \* ids of the price markers that carry price-marker--filtered
    cards,                  \* CardRenderer: listing ids of the cards, in display order
    countLabel,             \* CardRenderer: the number the count label shows
    placeholder,            \* CardRenderer: the container shows the "No listings" message
    lastEvent,              \* the event whose handler ran last
    refreshCalls,           \* the number of refreshView calls of the latest step
    burst,                  \* observation of the search debounce (see SearchInput)
    startup,                \* init(): the two requests, how far init has come, what it built
    searchMap,              \* MapManager: what the search put on the map, geocode lookups in flight
    createModal,            \* CreateListingModal: the modal and its submissions
    panels,                 \* FilterManager: _currentPanel and the panels and buttons marked open
    mapPopups,              \* MapManager: the info windows and the marks of the markers
    detailModal,            \* ListingModal: the listing shown and its slide
    cardHighlight,          \* CardRenderer: activeCardId and the cards marked active
    pc,                     \* refreshView: the line it is about to run, or "idle"
    filtered,               \* refreshView: const filtered
    passingIds,             \* refreshView: const passingIds
    result                  \* what the last direct call of a function returned

appVars == << LISTINGS, UNIVERSITIES, state, searchInput, acItems, _targetUniversity,
              _searchDebounceTimer, timers, targetNames, bounds, priceMarkers, markerDivs,
              filteredMarkers, cards, countLabel, placeholder, lastEvent, refreshCalls,
              burst, startup, searchMap, createModal, panels,
              mapPopups, detailModal, cardHighlight >>

\* The locals of a refreshView that is under way.
stepVars == << pc, filtered, passingIds >>

vars == << appVars, stepVars, result >>

\* ------------------------------------------------------------------------
\* Inputs and bounds
\* ------------------------------------------------------------------------

\* The texts the user types into the search box.
SearchTexts == { <<>>, <<" ","O","j">>, <<"c","s">> }

\* The values the user types into the price and the sqft inputs ("" clears one).
PriceTexts == { <<>>, <<"1","5","0","0">> }
SqftTexts == { <<>>, <<"7","0","0">> }

\* The option values of the beds and the baths selects.
BedsOptions == { <<"0">>, <<"2">> }
BathsOptions == { <<"0">>, <<"2">> }

\* The delay of the search debounce, and the time one Tick takes (ms).
DebounceMs == 400
TickMs == 200

\* _searchDebounceTimer before the first setTimeout.
NoTimer == 0

\* More pending timeouts than this are not explored.
MaxPendingTimers == 3

\* States with more filter chips than this are not explored.
MaxChips == 1

\* The longest burst of search input events that is counted.
MaxBurst == 2

\* No function has been called directly.
NoResult == [of |-> "none", value |-> <<>>]

NoBurst == [n |-> 0, text |-> <<>>, elapsed |-> 0, calls |-> 0, at |-> 0, arg |-> <<>>]

\* ------------------------------------------------------------------------
\* MapManager: the search highlight, the search pin and the geocode lookups
\* ------------------------------------------------------------------------

\* No rectangle, no pin, no pan: null in the code.
NoOverlay == [of |-> "none", ids |-> {}, query |-> <<>>]

\* No _geocodeAndHighlight has settled.
NoLookup == [query |-> <<>>, overtakenBy |-> <<>>, outcome |-> "none",
             value |-> FALSE, threw |-> FALSE]

\* What the map shows for the search after the constructor of MapManager: where the
\* map was last sent (fitBounds or panTo), the rectangle, the pin, the geocode
\* lookups in flight in the order they were started, and the lookup that settled last.
SearchMapAtStart ==
    [pannedTo |-> NoOverlay, _searchHighlight |-> NoOverlay, _searchPin |-> NoOverlay,
     lookups |-> <<>>, settled |-> NoLookup]

\* More geocode lookups in flight than this are not explored.
MaxLookups == 2

\* What the geocoder answers: a result with a viewport, a result that is a point,
\* no result, or a rejection.
GeocodeOutcomes == {"area", "point", "no result", "error"}

fitBoundsToListings(sm, listings) ==
    IF Len(listings) = 0 THEN sm
    ELSE [sm EXCEPT !.pannedTo = [of |-> "listings", ids |-> idSet(listings), query |-> <<>>]]

clearSearchHighlight(sm) == [sm EXCEPT !._searchHighlight = NoOverlay]

\* Math.max(...lats), Math.min(...lats) and the same of lngs are numbers: no
\* coordinate of the listings is NaN.
located(listings) ==
    \A i \in 1..Len(listings) : listings[i].lat # NaN /\ listings[i].lng # NaN

\* The rectangle of showSearchHighlight: the bounding box of the listings, or a
\* rectangle whose edges are NaN when a coordinate is NaN.
showSearchHighlight(sm, listings) ==
    IF Len(listings) = 0 THEN clearSearchHighlight(sm)
    ELSE IF located(listings)
         THEN [sm EXCEPT !._searchHighlight =
                             [of |-> "listings", ids |-> idSet(listings), query |-> <<>>]]
         ELSE [sm EXCEPT !._searchHighlight =
                             [of |-> "NaN", ids |-> {}, query |-> <<>>]]

clearSearchPin(sm) == [sm EXCEPT !._searchPin = NoOverlay]

showSearchPin(sm, id) ==
    [sm EXCEPT !._searchPin = [of |-> "listing", ids |-> {id}, query |-> <<>>]]

panTo(sm, uni) ==
    [sm EXCEPT !.pannedTo = [of |-> "university", ids |-> {}, query |-> uni.name]]

\* The rectangle or the pin of a geocoder result for a query.
geocoded(kind, query) == [of |-> kind, ids |-> {}, query |-> query]

\* _showGeocodedResult: a result with a viewport is fitted and framed, a point result
\* is panned to and pinned.
_showGeocodedResult(sm, kind, query) ==
    IF kind = "area"
    THEN [sm EXCEPT !.pannedTo = geocoded("area", query),
                    !._searchHighlight = geocoded("area", query),
                    !._searchPin = NoOverlay]
    ELSE [sm EXCEPT !.pannedTo = geocoded("point", query),
                    !._searchHighlight = NoOverlay,
                    !._searchPin = geocoded("point", query)]

\* A lookup that is in flight when the i-th one completes: the ones that were
\* started before it have been overtaken by it.
overtaken(lookups, i) ==
    [k \in 1..(Len(lookups) - 1) |->
        IF k < i THEN [lookups[k] EXCEPT !.overtakenBy = lookups[i].query]
        ELSE lookups[k + 1]]

\* A _geocodeAndHighlight that shows a result only when no lookup started after it
\* has completed.
_geocodeAndHighlightLatestOnly(sm, i, outcome) ==
    LET lookup == sm.lookups[i]
        found == outcome \in {"area", "point"}
        shown == IF found /\ lookup.overtakenBy = <<>>
                 THEN _showGeocodedResult(sm, outcome, lookup.query) ELSE sm
    IN  [shown EXCEPT !.lookups = overtaken(sm.lookups, i),
                      !.settled = [query |-> lookup.query, overtakenBy |-> lookup.overtakenBy,
                                   outcome |-> outcome, value |-> found, threw |-> FALSE]]

\* A _geocodeAndHighlight that removes the rectangle and the pin when the lookup
\* gives nothing.
_geocodeAndHighlightClearing(sm, i, outcome) ==
    LET lookup == sm.lookups[i]
        found == outcome \in {"area", "point"}
        shown == IF found THEN _showGeocodedResult(sm, outcome, lookup.query)
                 ELSE clearSearchPin(clearSearchHighlight(sm))
    IN  [shown EXCEPT !.lookups = overtaken(sm.lookups, i),
                      !.settled = [query |-> lookup.query, overtakenBy |-> lookup.overtakenBy,
                                   outcome |-> outcome, value |-> found, threw |-> FALSE]]

\* _geocodeAndHighlight from the answer of the geocoder on: results[0] is shown and
\* the promise resolves to true; no result, or a rejection that the catch swallows,
\* resolves to false.
_geocodeAndHighlight(sm, i, outcome) ==
    LET lookup == sm.lookups[i]
        found == outcome \in {"area", "point"}
        shown == IF found THEN _showGeocodedResult(sm, outcome, lookup.query) ELSE sm
    IN  [shown EXCEPT !.lookups = overtaken(sm.lookups, i),
                      !.settled = [query |-> lookup.query, overtakenBy |-> lookup.overtakenBy,
                                   outcome |-> outcome, value |-> found, threw |-> FALSE]]

\* geocodeQueryAndHighlight up to the await: the lookup is in flight.
geocodeQueryAndHighlight(sm, query) ==
    [sm EXCEPT !.lookups = Append(@, [query |-> query, overtakenBy |-> <<>>])]

\* UNIVERSITIES.find(u => u.name.toLowerCase().includes(query) || ...)
uniMatch(unis, query) ==
    LET Match(u) == \/ includes(toLowerCase(u.name), query)
                    \/ includes(toLowerCase(u.fullName), query)
    IN  IF \E i \in 1..Len(unis) : Match(unis[i])
        THEN unis[CHOOSE i \in 1..Len(unis) :
                     Match(unis[i]) /\ \A j \in 1..(i - 1) : ~Match(unis[j])]
        ELSE Null

\* The onSearchChange callback of wireEvents, up to its await.
onSearchChange(sm, matchingListings, query, unis) ==
    IF Len(matchingListings) > 0
    THEN LET framed == showSearchHighlight(fitBoundsToListings(sm, matchingListings),
                                           matchingListings)
         IN  IF Len(matchingListings) = 1
             THEN showSearchPin(framed, matchingListings[1].id)
             ELSE clearSearchPin(framed)
    ELSE IF query # <<>>
         THEN IF uniMatch(unis, query) # Null
              THEN panTo(clearSearchPin(clearSearchHighlight(sm)), uniMatch(unis, query))
              ELSE geocodeQueryAndHighlight(clearSearchPin(clearSearchHighlight(sm)), query)
         ELSE clearSearchPin(clearSearchHighlight(sm))

\* ------------------------------------------------------------------------
\* app.js: the startup requests
\* ------------------------------------------------------------------------

\* parseFloat(s) of a text without a fraction: the number its leading digits spell,
\* NaN when it has none (null and '' included).
parseFloat(s) ==
    IF s = <<>> \/ Head(s) \notin Digits THEN NaN ELSE Num(parseDigits(s, 0))

\* A row of the listings response: price, sqft, lat and lng are texts (<<>>: null).
RawListing(id, price, address, bedrooms, bathrooms, sqft, type, amenities, lat, lng) ==
    [id |-> id, price |-> price, address |-> address, bedrooms |-> bedrooms,
     bathrooms |-> bathrooms, sqft |-> sqft, type |-> type, amenities |-> amenities,
     lat |-> lat, lng |-> lng]

\* The rows the backend holds: the third listing has no coordinates.
RawCatalog ==
    << RawListing(1, <<"1","5","0","0">>, Addr1, 1, 1, <<"6","5","0">>, "Apartment",
                  <<"Pool", "Gym">>, <<"1">>, <<"1">>),
       RawListing(2, <<"1","5","0","0">>, Addr2, 2, 2, <<"9","0","0">>, "House",
                  <<"Pool">>, <<"3">>, <<"3">>),
       RawListing(3, <<"9","0","0">>, Addr3, 0, 1, <<"5","0","0">>, "Apartment",
                  <<>>, <<>>, <<>>) >>

\* The rows of the universities response.
RawCampuses ==
    << [name |-> UCLA.name, fullName |-> UCLA.fullName, lat |-> <<"3">>, lng |-> <<"3">>],
       [name |-> CSUN.name, fullName |-> CSUN.fullName, lat |-> <<"1">>, lng |-> <<"1">>] >>

\* fetchListings: data.map(listing => ({...listing, lat, lng, price, sqft}))
parseListing(row) ==
    Listing(row.id, parseFloat(row.price), row.address, row.bedrooms, row.bathrooms,
            IF row.sqft # <<>> THEN parseInt(row.sqft) ELSE Null,
            row.type, row.amenities, parseFloat(row.lat), parseFloat(row.lng))

\* fetchUniversities: data.map(uni => ({...uni, lat, lng}))
parseUniversity(row) ==
    University(row.name, row.fullName, parseFloat(row.lat), parseFloat(row.lng))

\* How a request can fail: fetch rejects, the status is not 2xx, response.json()
\* rejects, or the body is JSON but no array (data.filter / data.map throw).
Failures == {"network error", "http error", "unreadable body", "no array"}

\* What the backend can answer to GET /listings/ and to GET /universities/.
ListingsResponses ==
    {[kind |-> k, data |-> <<>>] : k \in Failures}
    \cup {[kind |-> "ok", data |-> <<>>], [kind |-> "ok", data |-> RawCatalog]}

UniversitiesResponses ==
    {[kind |-> k, data |-> <<>>] : k \in Failures}
    \cup {[kind |-> "ok", data |-> <<>>], [kind |-> "ok", data |-> RawCampuses]}

\* A promise: pending, fulfilled with a value, or rejected; answer is the kind of
\* response it was settled on.
Pending == [settled |-> "pending", value |-> <<>>, answer |-> "none"]

\* A fetchListings without the try/catch: a failure rejects its promise.
fetchListingsRethrows(response) ==
    IF response.kind \in Failures
    THEN [settled |-> "rejected", value |-> <<>>, answer |-> response.kind]
    ELSE [settled |-> "fulfilled", answer |-> response.kind,
          value |-> [i \in 1..Len(response.data) |-> parseListing(response.data[i])]]

\* fetchListings: whatever is thrown inside try is caught and logged and the
\* function returns []; otherwise it returns the parsed rows.
fetchListings(response) ==
    IF response.kind \in Failures
    THEN [settled |-> "fulfilled", value |-> <<>>, answer |-> response.kind]
    ELSE [settled |-> "fulfilled", answer |-> response.kind,
          value |-> [i \in 1..Len(response.data) |-> parseListing(response.data[i])]]

\* fetchUniversities: the same try/catch around the universities request.
fetchUniversities(response) ==
    IF response.kind \in Failures
    THEN [settled |-> "fulfilled", value |-> <<>>, answer |-> response.kind]
    ELSE [settled |-> "fulfilled", answer |-> response.kind,
          value |-> [i \in 1..Len(response.data) |-> parseUniversity(response.data[i])]]

\* DEFAULT_CENTER, in the coordinates of the model.
DEFAULT_CENTER == [lat |-> Num(2), lng |-> Num(2)]

\* init step 3: the centre of the map.
mapCenter(target) ==
    IF target # Null THEN [lat |-> target.lat, lng |-> target.lng] ELSE DEFAULT_CENTER

\* The callbacks wireEvents registers ahead of filterManager.onPlaceSelect, and
\* all of them. FilterManager as this source has it defines no onPlaceSelect: where
\* that call throws, wireEvents ends there and the callbacks registered before it
\* stay registered.
ViewCallbacks == {"onBoundsChange", "onChange", "onTargetChange", "onSearchChange"}

AllCallbacks ==
    ViewCallbacks \cup {"onPlaceSelect", "onUniversityDblClick", "onMarkerHover",
                        "onMarkerClick", "onCardHover", "onCardClick"}

\* Before the requests of init have been answered.
NotStarted ==
    [listings |-> Pending, universities |-> Pending, at |-> "193", modules |-> FALSE,
     mapCenter |-> Undefined, wired |-> {}]

\* init has returned with these collections.
startedUp(listings, unis, target) ==
    [listings |-> [settled |-> "fulfilled", value |-> listings, answer |-> "ok"],
     universities |-> [settled |-> "fulfilled", value |-> unis, answer |-> "ok"],
     at |-> "done", modules |-> TRUE, mapCenter |-> mapCenter(target),
     wired |-> ViewCallbacks]

\* ------------------------------------------------------------------------
\* Init: the state when init() of app.js has returned
\* ------------------------------------------------------------------------

\* ------------------------------------------------------------------------
\* CreateListingModal (create-listing.js)
\* ------------------------------------------------------------------------

\* The values of the form at a submit: the texts of the inputs and the values of
\* the selects ("" : nothing chosen).
Form(title, type, bedrooms, bathrooms, price, sqft, address, city, zip_code) ==
    [title |-> title, type |-> type, bedrooms |-> bedrooms, bathrooms |-> bathrooms,
     price |-> price, sqft |-> sqft, address |-> address, city |-> city,
     zip_code |-> zip_code]

GoodForm ==
    Form(<<"L","o","f","t">>, "House", "2", "1", <<"1","5","0","0">>, <<"7","0","0">>,
         <<"1"," ","E","l","m">>, <<"O","j","a","i">>, <<"9","3","0","2","3">>)

\* The forms the user submits: a complete one, one without the optional area, and
\* one for each required field that is blank, not chosen or no positive number.
Forms ==
    { GoodForm,
      [GoodForm EXCEPT !.sqft = <<>>],
      [GoodForm EXCEPT !.title = <<" ">>],
      [GoodForm EXCEPT !.type = ""],
      [GoodForm EXCEPT !.bedrooms = ""],
      [GoodForm EXCEPT !.bathrooms = ""],
      [GoodForm EXCEPT !.price = <<"0">>],
      [GoodForm EXCEPT !.price = <<>>],
      [GoodForm EXCEPT !.address = <<>>],
      [GoodForm EXCEPT !.city = <<" ">>],
      [GoodForm EXCEPT !.zip_code = <<>>] }

\* A validation without the rule for the city.
validationErrorSkipsCity(form) ==
    LET price == parseFloat(form.price)
    IN  IF trim(form.title) = <<>> THEN "Listing title is required."
        ELSE IF form.type = "" THEN "Property type is required."
        ELSE IF form.bedrooms = "" THEN "Bedrooms is required."
        ELSE IF form.bathrooms = "" THEN "Bathrooms is required."
        ELSE IF price = NaN \/ price.val = 0 \/ JsLe(price, Num(0))
             THEN "Monthly rent must be a positive number."
        ELSE IF trim(form.address) = <<>> THEN "Street address is required."
        ELSE IF trim(form.zip_code) = <<>> THEN "Zip code is required."
        ELSE ""

\* The client-side validation of _handleSubmit: the message of the first rule that
\* fails, "" when the form passes.
validationError(form) ==
    LET price == parseFloat(form.price)
    IN  IF trim(form.title) = <<>> THEN "Listing title is required."
        ELSE IF form.type = "" THEN "Property type is required."
        ELSE IF form.bedrooms = "" THEN "Bedrooms is required."
        ELSE IF form.bathrooms = "" THEN "Bathrooms is required."
        ELSE IF price = NaN \/ price.val = 0 \/ JsLe(price, Num(0))
             THEN "Monthly rent must be a positive number."
        ELSE IF trim(form.address) = <<>> THEN "Street address is required."
        ELSE IF trim(form.city) = <<>> THEN "City is required."
        ELSE IF trim(form.zip_code) = <<>> THEN "Zip code is required."
        ELSE ""

\* What the geocoder hands to the callback of _geocode: a status, the number of
\* results, and the location of the first one in tenths of a millionth of a degree.
GeocoderAnswer(status, results, lat, lng) ==
    [status |-> status, results |-> results, lat |-> lat, lng |-> lng]

GeocoderAnswers ==
    { GeocoderAnswer("OK", 1, 14, 26),
      GeocoderAnswer("OK", 1, 0, 0 - 15),
      GeocoderAnswer("OK", 0, 0, 0),
      GeocoderAnswer("ZERO_RESULTS", 0, 0, 0),
      GeocoderAnswer("ERROR", 0, 0, 0) }

\* _geocode: resolves with the location of results[0], rejects for every other
\* answer.
_geocode(answer) ==
    IF answer.status = "OK" /\ answer.results > 0
    THEN [settled |-> "fulfilled", lat |-> answer.lat, lng |-> answer.lng]
    ELSE [settled |-> "rejected", lat |-> 0, lng |-> 0]

\* Math.round(x * 1000000) / 1000000, from tenths of a millionth to millionths of a
\* degree: halves round up.
roundMicro(n) == (n + 5) \div 10

\* The keys every POST body has.
RequiredKeys ==
    {"title", "type", "bedrooms", "bathrooms", "price", "address", "city", "state",
     "zip_code", "description", "amenities", "owner_id"}

\* A POST body that takes lat, lng and sqft when they are truthy.
postBodyTruthy(form, lat, lng) ==
    [form |-> form,
     keys |-> RequiredKeys
              \cup (IF lat # Null /\ lat.val # 0 THEN {"lat"} ELSE {})
              \cup (IF lng # Null /\ lng.val # 0 THEN {"lng"} ELSE {})
              \cup (IF form.sqft # <<>> THEN {"sqft"} ELSE {}),
     lat |-> lat, lng |-> lng,
     sqft |-> IF form.sqft # <<>> THEN parseInt(form.sqft) ELSE Null]

\* The POST body of _handleSubmit: lat, lng and sqft are keys of it when they are
\* not null.
postBody(form, lat, lng) ==
    [form |-> form,
     keys |-> RequiredKeys
              \cup (IF lat # Null THEN {"lat"} ELSE {})
              \cup (IF lng # Null THEN {"lng"} ELSE {})
              \cup (IF form.sqft # <<>> THEN {"sqft"} ELSE {}),
     lat |-> lat, lng |-> lng,
     sqft |-> IF form.sqft # <<>> THEN parseInt(form.sqft) ELSE Null]

\* The body of an error response as response.json() gives it: an object with its
\* entries in order (the value of a key is an array of texts or one text), null,
\* or a value that is no object.
ErrEntry(field, msgs, isArray) == [field |-> field, msgs |-> msgs, isArray |-> isArray]
ErrObject(entries) == [kind |-> "object", entries |-> entries]
ErrNull == [kind |-> "null", entries |-> <<>>]
ErrText == [kind |-> "text", entries |-> <<>>]

\* parts.join(sep)
RECURSIVE join(_, _)
join(parts, sep) ==
    IF parts = <<>> THEN ""
    ELSE IF Len(parts) = 1 THEN parts[1]
    ELSE parts[1] \o sep \o join(Tail(parts), sep)

\* _formatApiError: one line per key, "field: text", the text alone for
\* non_field_errors; '' for what is no object.
_formatApiError(errData) ==
    IF errData.kind # "object" THEN ""
    ELSE join([k \in 1..Len(errData.entries) |->
                  LET entry == errData.entries[k]
                      text == IF entry.isArray THEN join(entry.msgs, " ") ELSE entry.msgs[1]
                  IN  IF entry.field = "non_field_errors" THEN text
                      ELSE entry.field \o ": " \o text],
              " | ")

\* The created listing as the backend returns it.
Created == ErrObject(<< ErrEntry("id", <<"101">>, FALSE) >>)

\* What comes back for the POST: fetch resolves with a status and a body that
\* response.json() can read or not, or fetch rejects with an exception.
PostResponse(kind, status, data, message) ==
    [kind |-> kind, status |-> status, data |-> data, message |-> message]

\* The answers to POST /listings/: created; a 2xx whose body is no JSON; validation
\* errors keyed by field; an error with a detail text; an error with an empty
\* object, with null, and with a body that is no JSON; a request that fails.
PostResponses ==
    { PostResponse("json", "201", Created, ""),
      PostResponse("no json", "201", ErrNull, "Unexpected end of JSON input"),
      PostResponse("json", "400",
                   ErrObject(<< ErrEntry("price", <<"Too high.", "Not a number.">>, TRUE),
                                ErrEntry("non_field_errors", <<"Owner unknown.">>, TRUE) >>),
                   ""),
      PostResponse("json", "404",
                   ErrObject(<< ErrEntry("detail", <<"Not found.">>, FALSE) >>), ""),
      PostResponse("json", "400", ErrObject(<<>>), ""),
      PostResponse("json", "403", ErrText, ""),
      PostResponse("no json", "500", ErrNull, "Unexpected token <"),
      PostResponse("rejected", "", ErrNull, "Failed to fetch") }

\* response.ok
ok(response) == response.kind # "rejected" /\ response.status = "201"

\* The message of the error that the try block of the POST throws: the rejection
\* of fetch, the formatted errors of a response that is not ok or its status, the
\* rejection of response.json() for a 2xx; "" when nothing is thrown.
thrown(response) ==
    IF response.kind = "rejected" THEN response.message
    ELSE IF ~ok(response)
         THEN LET errData == IF response.kind = "no json" THEN ErrObject(<<>>)
                             ELSE response.data
              IN  IF _formatApiError(errData) # "" THEN _formatApiError(errData)
                  ELSE "HTTP " \o response.status
    ELSE IF response.kind = "no json" THEN response.message
    ELSE ""

\* The end of _handleSubmit that closes the modal whatever the answer is.
afterPostClosing(response, registered) ==
    [closes |-> TRUE,
     calls |-> IF thrown(response) = "" /\ registered THEN 1 ELSE 0,
     error |-> IF thrown(response) = "" THEN ""
               ELSE "Failed to post listing: " \o thrown(response)]

\* The end of _handleSubmit that calls onSuccess in the finally block.
afterPostCallingAlways(response, registered) ==
    [closes |-> thrown(response) = "",
     calls |-> IF registered THEN 1 ELSE 0,
     error |-> IF thrown(response) = "" THEN ""
               ELSE "Failed to post listing: " \o thrown(response)]

\* _handleSubmit from the answer of the POST on: close() and the call of onSuccess
\* when nothing is thrown, _setError in the catch block otherwise (error "": the
\* message is left as it is).
afterPost(response, registered) ==
    [closes |-> thrown(response) = "",
     calls |-> IF thrown(response) = "" /\ registered THEN 1 ELSE 0,
     error |-> IF thrown(response) = "" THEN ""
               ELSE "Failed to post listing: " \o thrown(response)]

\* More submissions than this are not explored.
MaxSubmissions == 2

\* No handler of the modal has run.
NothingHandled ==
    [event |-> "none", form |-> GoodForm, response |-> PostResponse("none", "", ErrNull, ""),
     wasOpen |-> FALSE, calls |-> 0, arg |-> Null]

\* The modal after its constructor: closed, not submitting, the submit button
\* enabled, no message, no callback, no submission under way, nothing posted.
\* started, posts and onSuccessCalls count the lookups, the POSTs and the calls of
\* the callback so far; handled is what the last handler of the modal saw.
CreateModalAtStart ==
    [isOpen |-> FALSE, _submitting |-> FALSE, disabled |-> FALSE, error |-> "",
     _onSuccess |-> FALSE, submissions |-> <<>>, posted |-> {}, started |-> 0,
     posts |-> 0, onSuccessCalls |-> 0, handled |-> NothingHandled]

\* A default target without the fallback to the first university.
defaultTargetCsunOnly(unis) ==
    IF \E i \in 1..Len(unis) : unis[i].name = CSUN.name
    THEN unis[CHOOSE i \in 1..Len(unis) : unis[i].name = CSUN.name]
    ELSE Null

\* universities.find(u => u.name === 'CSUN') || universities[0] || null
defaultTarget(unis) ==
    IF \E i \in 1..Len(unis) : unis[i].name = CSUN.name
    THEN unis[CHOOSE i \in 1..Len(unis) :
                 unis[i].name = CSUN.name /\ \A j \in 1..(i - 1) : unis[j].name # CSUN.name]
    ELSE IF Len(unis) > 0 THEN unis[1]
    ELSE Null

\* The filter buttons of _render and the panels that go with them.
PanelNames == {"type", "beds", "baths", "price", "sqft", "amenities"}

\* this._currentPanel = null
NoPanel == "null"

\* The constructor and _render: no panel carries ftb__panel--open, no button
\* ftb__btn--active; clicked is the button of the last click on a filter button.
PanelsAtStart == [_currentPanel |-> NoPanel, open |-> {}, active |-> {}, clicked |-> NoPanel]

_closeAllPanels(p) == [p EXCEPT !._currentPanel = NoPanel, !.open = {}, !.active = {}]

\* _showPanel, were it not to close the other panels first.
_showPanelKeepingOthers(p, name) ==
    [p EXCEPT !._currentPanel = name,
              !.open = IF name \in PanelNames THEN p.open \cup {name} ELSE p.open,
              !.active = IF name \in PanelNames THEN p.active \cup {name} ELSE p.active]

_showPanel(p, name) ==
    LET closed == _closeAllPanels(p)
    IN  [closed EXCEPT !._currentPanel = name,
                       !.open = IF name \in PanelNames THEN {name} ELSE {},
                       !.active = IF name \in PanelNames THEN {name} ELSE {}]

\* No listing id: null in activeMarkerId, activeCardId; an id is held as <<id>>.
NoId == <<>>

\* The names of the universities of a collection.
names(unis) == {unis[i].name : i \in 1..Len(unis)}

\* MapManager after its constructor and addUniversityMarker for every university:
\* no info window is open, no marker is marked, no university marker has its div.
\*   activeInfoWindow  the listing whose InfoWindow activeInfoWindow holds
\*   openWindows       the listings whose InfoWindow is open on the map
\*   activeMarkers     the price markers that carry price-marker--active
\*   pinned            the universities whose entry.isOpen is true
\*   uniWindows        the universities whose InfoWindow is open on the map
\*   uniActive         the university markers that carry uni-marker--active
\*   uniDivs           the university markers whose overlay has its div
\*   uniTarget         the university markers that carry uni-marker--target
MapPopupsAtStart(unis) ==
    [activeInfoWindow |-> NoId, activeMarkerId |-> NoId, openWindows |-> {},
     activeMarkers |-> {}, pinned |-> {}, uniWindows |-> {}, uniActive |-> {},
     uniDivs |-> {}, uniTarget |-> {}, called |-> [op |-> "none", id |-> NoId]]

\* hideInfoWindow, were it to forget the window without closing it.
hideInfoWindowLeavingOpen(mp, markers, divs) ==
    [mp EXCEPT !.activeInfoWindow = NoId, !.activeMarkerId = NoId]

\* hideInfoWindow(): the active window is closed and its marker unmarked.
hideInfoWindow(mp, markers, divs) ==
    IF mp.activeInfoWindow = NoId THEN mp
    ELSE [mp EXCEPT
             !.openWindows = @ \ {mp.activeInfoWindow[1]},
             !.activeMarkers = IF mp.activeMarkerId[1] \in idSet(markers) \cap divs
                               THEN @ \ {mp.activeMarkerId[1]} ELSE @,
             !.activeInfoWindow = NoId,
             !.activeMarkerId = NoId]

\* _closeAllUniPopups, were it to close nothing.
_closeAllUniPopupsNot(mp) == mp

\* _closeAllUniPopups(): every pinned university popup is closed and unpinned.
_closeAllUniPopups(mp) ==
    [mp EXCEPT !.uniWindows = @ \ mp.pinned,
               !.uniActive = @ \ (mp.pinned \cap mp.uniDivs),
               !.pinned = {}]

\* showInfoWindow(listingId); setActive marks a marker only when it has its div.
showInfoWindow(mp, markers, divs, listingId) ==
    LET closed == _closeAllUniPopups(hideInfoWindow(mp, markers, divs))
    IN  IF listingId \notin idSet(markers) THEN closed
        ELSE [closed EXCEPT
                 !.openWindows = @ \cup {listingId},
                 !.activeMarkers = IF listingId \in divs THEN @ \cup {listingId} ELSE @,
                 !.activeInfoWindow = <<listingId>>,
                 !.activeMarkerId = <<listingId>>]

\* highlightMarker(listingId) and unhighlightMarker()
highlightMarker(mp, markers, divs, listingId) == showInfoWindow(mp, markers, divs, listingId)

unhighlightMarker(mp, markers, divs) == hideInfoWindow(mp, markers, divs)

\* overlay.onMouseOver and overlay.onMouseOut of a university marker: the preview
\* of a popup that is not pinned.
uniMouseOver(mp, name) ==
    IF name \in mp.pinned THEN mp
    ELSE [mp EXCEPT !.uniActive = @ \cup {name}, !.uniWindows = @ \cup {name}]

uniMouseOut(mp, name) ==
    IF name \in mp.pinned THEN mp
    ELSE [mp EXCEPT !.uniActive = @ \ {name}, !.uniWindows = @ \ {name}]

\* overlay.onClick of a university marker: the popup is pinned, or closed when it
\* was pinned.
uniClick(mp, markers, divs, name) ==
    LET hidden == hideInfoWindow(mp, markers, divs)
    IN  IF name \in hidden.pinned
        THEN [hidden EXCEPT !.uniWindows = @ \ {name}, !.uniActive = @ \ {name},
                            !.pinned = @ \ {name}]
        ELSE LET closed == _closeAllUniPopups(hidden)
             IN  [closed EXCEPT !.uniWindows = @ \cup {name}, !.uniActive = @ \cup {name},
                                !.pinned = @ \cup {name}]

\* The ids of the cards on display.
displayed(cardIds) == {cardIds[i] : i \in 1..Len(cardIds)}

\* clearHighlight()
clearHighlight(h, cardIds) ==
    IF h.activeCardId = NoId THEN h
    ELSE [h EXCEPT !.marked = @ \ {h.activeCardId[1]}, !.activeCardId = NoId]

\* highlightCard(listingId)
highlightCard(h, cardIds, listingId) ==
    LET cleared == clearHighlight(h, cardIds)
    IN  IF listingId \in displayed(cardIds)
        THEN [cleared EXCEPT !.marked = @ \cup {listingId}, !.activeCardId = <<listingId>>]
        ELSE cleared

\* MapManager.setTargetUniversity: every university marker that has its div gets
\* uni-marker--target when it is the named one and loses it otherwise; a marker
\* without a div is passed over.
setTargetUniversity(mp, name) ==
    [mp EXCEPT !.uniTarget = (@ \ mp.uniDivs) \cup ({name} \cap mp.uniDivs)]

\* The slides _generateSlides returns for every listing.
SlideCount == 5

\* ListingModal after its constructor: closed, _currentListing = null,
\* _currentSlide = 0, _slides = []; no handler has run, none has thrown.
DetailModalAtStart ==
    [isOpen |-> FALSE, _currentListing |-> NoId, _currentSlide |-> Num(0), slides |-> 0,
     threw |-> FALSE, called |-> "none"]

\* a % n on the values the slide index takes: NaN for n = 0 and for a = NaN, the
\* remainder with the sign of a otherwise.
remainder(a, n) ==
    IF a = NaN \/ n = 0 THEN NaN
    ELSE IF a.val >= 0 THEN Num(a.val % n)
    ELSE Num(0 - ((0 - a.val) % n))

\* a + k
plus(a, k) == IF a = NaN THEN NaN ELSE Num(a.val + k)

\* this._slides[i] is a slide and not undefined.
isSlide(i, n) == i # NaN /\ i.val \in 0..(n - 1)

\* _updateSlide: reading slide.gradient throws when the slide is undefined.
_updateSlide(m, event) ==
    [m EXCEPT !.threw = ~isSlide(m._currentSlide, m.slides), !.called = event]

\* ListingModal.open
open(m, listing) ==
    _updateSlide([m EXCEPT !._currentListing = <<listing.id>>, !.slides = SlideCount,
                           !._currentSlide = Num(0), !.isOpen = TRUE], "open")

\* ListingModal.close
close(m) ==
    [m EXCEPT !.isOpen = FALSE, !._currentListing = NoId, !.threw = FALSE,
              !.called = "close"]

\* The handler of #modal-prev and of ArrowLeft.
prev(m, event) ==
    _updateSlide([m EXCEPT !._currentSlide =
                              remainder(plus(m._currentSlide, m.slides - 1), m.slides)],
                 event)

\* The handler of #modal-next and of ArrowRight.
next(m, event) ==
    _updateSlide([m EXCEPT !._currentSlide = remainder(plus(m._currentSlide, 1), m.slides)],
                 event)

\* CardRenderer after its constructor: activeCardId = null, no card is marked.
CardHighlightAtStart == [activeCardId |-> NoId, marked |-> {}]

\* recomputeDistances: every listing gets the name of the target.
recomputeDistances(all, uni) == [id \in idSet(all) |-> uni.name]

Init ==
    /\ LISTINGS = Catalog
    /\ UNIVERSITIES = Campuses
    /\ state = DefaultState
    /\ searchInput = <<>>
    /\ acItems = <<>>
    /\ _targetUniversity = defaultTarget(Campuses)
    /\ _searchDebounceTimer = NoTimer
    /\ timers = {}
    /\ targetNames = IF defaultTarget(Campuses) # Null
                     THEN recomputeDistances(Catalog, defaultTarget(Campuses))
                     ELSE [id \in idSet(Catalog) |-> <<>>]
    /\ bounds = Undefined
    /\ priceMarkers = addListingMarkers(Catalog)
    /\ markerDivs = {}
    /\ filteredMarkers = {}
    /\ cards = <<>>
    /\ countLabel = 0
    /\ placeholder = FALSE
    /\ lastEvent = "init"
    /\ refreshCalls = 0
    /\ burst = NoBurst
    /\ pc = "idle"
    /\ filtered = <<>>
    /\ passingIds = {}
    /\ result = NoResult
    /\ startup = startedUp(LISTINGS, UNIVERSITIES, _targetUniversity)
    /\ searchMap = SearchMapAtStart
    /\ createModal = CreateModalAtStart
    /\ panels = PanelsAtStart
    /\ mapPopups = MapPopupsAtStart(UNIVERSITIES)
    /\ detailModal = DetailModalAtStart
    /\ cardHighlight = CardHighlightAtStart

\* ------------------------------------------------------------------------
\* app.js: refreshView and the callbacks wired in wireEvents
\* ------------------------------------------------------------------------

\* render, were it to clear activeCardId with the cards.
emptiedAndCleared(h) == [h EXCEPT !.marked = {}, !.activeCardId = NoId]

\* render(listings), line 43: container.innerHTML = '' takes every card away, and
\* the class listing-card--active with them; activeCardId is left as it is.
emptied(h) == [h EXCEPT !.marked = {}]

\* getFilteredVisibleListings under filter state st and viewport b.
getFilteredVisibleListings(st, b) == applyFilters(st, getVisibleListings(b, priceMarkers))

\* refreshView under filter state st and viewport b: the cards are rendered from
\* the visible listings that pass, the markers are dimmed from the passing ids of
\* the full collection.
refreshView(st, b) ==
    \E o \in renderOutcomes(getFilteredVisibleListings(st, b)) :
        /\ cards' = o.cards
        /\ countLabel' = o.count
        /\ placeholder' = o.placeholder
        /\ filteredMarkers' =
              IF o.threw THEN filteredMarkers
              ELSE updateMarkerVisibility(priceMarkers, markerDivs, filteredMarkers,
                                          getPassingIds(st, LISTINGS))
        /\ cardHighlight' = emptied(cardHighlight)

\* An onChange callback that is not wired to refreshView.
_emitChangeUnwired(st) ==
    UNCHANGED << cards, countLabel, placeholder, filteredMarkers, cardHighlight >>

\* _emitChange: the onChange callback of wireEvents runs refreshView.
_emitChange(st) == refreshView(st, bounds)

\* A clearTimeout that cancels nothing.
clearTimeoutDropped(ts, id) == ts

\* clearTimeout(id): a no-op for an id that is not pending.
clearTimeout(ts, id) == {t \in ts : t.id # id}

\* The id setTimeout returns: the least one that no pending timeout has.
freshTimerId(ts) ==
    CHOOSE i \in 1..(MaxPendingTimers + 1) :
        /\ i \notin {t.id : t \in ts}
        /\ \A j \in 1..(i - 1) : j \in {t.id : t \in ts}

\* _emitSearchChange: cancel the timeout of the slot, schedule a new one.
_emitSearchChange ==
    LET cleared == clearTimeout(timers, _searchDebounceTimer)
        id == freshTimerId(cleared)
    IN  /\ Cardinality(timers) < MaxPendingTimers
        /\ timers' = cleared \cup {[id |-> id, remaining |-> DebounceMs]}
        /\ _searchDebounceTimer' = id

\* The onTargetChange callback of wireEvents: recomputeDistances, setTargetUniversity
\* and panTo (the map moves later, see MapMoves), then refreshView.
onTargetChange(st, uni) ==
    /\ targetNames' = recomputeDistances(LISTINGS, uni)
    /\ refreshView(st, bounds)

\* universities.find(u => u.name === name)
findUniversity(unis, name) ==
    IF \E i \in 1..Len(unis) : unis[i].name = name
    THEN unis[CHOOSE i \in 1..Len(unis) :
                 unis[i].name = name /\ \A j \in 1..(i - 1) : unis[j].name # name]
    ELSE Null

\* The observation of a burst of search input events: n events so far, the query
\* of the last one, the time since it, the callback invocations since the burst
\* began, and the time and the argument of the last invocation.
burstAfterInput(query) ==
    [n |-> IF burst.n >= 1 /\ burst.calls = 0
           THEN (IF burst.n < MaxBurst THEN burst.n + 1 ELSE MaxBurst)
           ELSE 1,
     text |-> query, elapsed |-> 0, calls |-> 0, at |-> 0, arg |-> <<>>]

\* ------------------------------------------------------------------------
\* Handlers of FilterManager._bindEvents
\* ------------------------------------------------------------------------

\* 'change' on the target select.
TargetSelect(name) ==
    LET uni == findUniversity(UNIVERSITIES, name)
    IN  /\ uni # Null
        /\ _targetUniversity' = uni
        /\ onTargetChange(state, uni)
        /\ lastEvent' = "targetSelect"
        /\ refreshCalls' = 1
        /\ UNCHANGED << stepVars, result, LISTINGS, startup, panels, mapPopups, detailModal, searchMap, createModal, UNIVERSITIES, state, searchInput, acItems,
                        _searchDebounceTimer, timers, bounds, priceMarkers, markerDivs, burst >>

\* A search input handler that leaves the refresh to the debounced callback.
SearchInputDebouncedOnly(text) ==
    /\ text # searchInput
    /\ searchInput' = text
    /\ state' = [state EXCEPT !.searchQuery = toLowerCase(trim(text))]
    /\ acItems' = _showAutocomplete(LISTINGS, UNIVERSITIES, trim(text))
    /\ _emitSearchChange
    /\ burst' = burstAfterInput(toLowerCase(trim(text)))
    /\ lastEvent' = "searchInput"
    /\ refreshCalls' = 0
    /\ UNCHANGED << stepVars, result, LISTINGS, startup, panels, mapPopups, detailModal, cardHighlight, searchMap, createModal, UNIVERSITIES, _targetUniversity, targetNames, bounds,
                    priceMarkers, markerDivs, filteredMarkers, cards, countLabel, placeholder >>

\* 'input' on the search box.
SearchInput(text) ==
    LET st == [state EXCEPT !.searchQuery = toLowerCase(trim(text))]
    IN  /\ text # searchInput
        /\ searchInput' = text
        /\ state' = st
        /\ acItems' = _showAutocomplete(LISTINGS, UNIVERSITIES, trim(text))
        /\ _emitChange(st)
        /\ _emitSearchChange
        /\ burst' = burstAfterInput(st.searchQuery)
        /\ lastEvent' = "searchInput"
        /\ refreshCalls' = 1
        /\ UNCHANGED << stepVars, result, LISTINGS, startup, panels, mapPopups, detailModal, searchMap, createModal, UNIVERSITIES, _targetUniversity, targetNames, bounds,
                        priceMarkers, markerDivs >>

\* 'focus' on the search box.
SearchFocus ==
    /\ acItems' = IF trim(searchInput) # <<>>
                  THEN _showAutocomplete(LISTINGS, UNIVERSITIES, trim(searchInput))
                  ELSE acItems
    /\ panels' = _closeAllPanels(panels)
    /\ lastEvent' = "searchFocus"
    /\ refreshCalls' = 0
    /\ UNCHANGED << stepVars, result, LISTINGS, startup, mapPopups, detailModal, cardHighlight, searchMap, createModal, UNIVERSITIES, state, searchInput, _targetUniversity,
                    _searchDebounceTimer, timers, targetNames, bounds, priceMarkers,
                    markerDivs, filteredMarkers, cards, countLabel, placeholder, burst >>

\* Escape in the search box (and, while no panel is open, a click outside the
\* filter bar): _hideAutocomplete.
HideAutocomplete ==
    /\ acItems # <<>>
    /\ acItems' = <<>>
    /\ lastEvent' = "hideAutocomplete"
    /\ refreshCalls' = 0
    /\ UNCHANGED << stepVars, result, LISTINGS, startup, panels, mapPopups, detailModal, cardHighlight, searchMap, createModal, UNIVERSITIES, state, searchInput, _targetUniversity,
                    _searchDebounceTimer, timers, targetNames, bounds, priceMarkers,
                    markerDivs, filteredMarkers, cards, countLabel, placeholder, burst >>

\* What a filter control handler does once it has changed the state to st:
\* _updateChips, _updateButtonStates, _emitChange.
FilterChanged(st, event) ==
    /\ Cardinality(_getActiveChips(st)) <= MaxChips
    /\ state' = st
    /\ _emitChange(st)
    /\ lastEvent' = event
    /\ refreshCalls' = 1
    /\ UNCHANGED << stepVars, result, LISTINGS, startup, panels, mapPopups, detailModal, searchMap, createModal, UNIVERSITIES, searchInput, acItems, _targetUniversity,
                    _searchDebounceTimer, timers, targetNames, bounds, priceMarkers,
                    markerDivs, burst >>

\* 'change' on a type checkbox: checked adds the type, unchecked deletes it.
TypeChange(type) ==
    /\ type \in allTypes(LISTINGS)
    /\ FilterChanged([state EXCEPT !.types = IF type \in @ THEN @ \ {type} ELSE @ \cup {type}],
                     "typeChange")

\* 'change' on an amenity checkbox.
AmenityChange(amenity) ==
    /\ amenity \in allAmenities(LISTINGS)
    /\ FilterChanged([state EXCEPT !.amenities =
                          IF amenity \in @ THEN @ \ {amenity} ELSE @ \cup {amenity}],
                     "amenityChange")

\* 'change' on the beds select.
BedsChange(value) ==
    /\ parseInt(value).val # state.minBeds
    /\ FilterChanged([state EXCEPT !.minBeds = parseInt(value).val], "bedsChange")

\* 'change' on the baths select.
BathsChange(value) ==
    /\ parseInt(value).val # state.minBaths
    /\ FilterChanged([state EXCEPT !.minBaths = parseInt(value).val], "bathsChange")

\* 'input' on the price and sqft inputs: an empty value restores the default.
PriceMinInput(value) ==
    FilterChanged([state EXCEPT !.priceMin = IF value # <<>> THEN parseInt(value) ELSE Num(0)],
                  "priceMinInput")

PriceMaxInput(value) ==
    FilterChanged([state EXCEPT !.priceMax = IF value # <<>> THEN parseInt(value) ELSE Infinity],
                  "priceMaxInput")

SqftMinInput(value) ==
    FilterChanged([state EXCEPT !.sqftMin = IF value # <<>> THEN parseInt(value) ELSE Num(0)],
                  "sqftMinInput")

SqftMaxInput(value) ==
    FilterChanged([state EXCEPT !.sqftMax = IF value # <<>> THEN parseInt(value) ELSE Infinity],
                  "sqftMaxInput")

\* The state after _removeFilter(key, value).
stateWithout(st, key, value) ==
    CASE key = "type" -> [st EXCEPT !.types = @ \ {value}]
      [] key = "beds" -> [st EXCEPT !.minBeds = 0]
      [] key = "baths" -> [st EXCEPT !.minBaths = 0]
      [] key = "price" -> [st EXCEPT !.priceMin = Num(0), !.priceMax = Infinity]
      [] key = "sqft" -> [st EXCEPT !.sqftMin = Num(0), !.sqftMax = Infinity]
      [] key = "amenity" -> [st EXCEPT !.amenities = @ \ {value}]
      [] OTHER -> st

\* A click on the x of a chip.
RemoveFilter(chip) ==
    /\ chip \in _getActiveChips(state)
    /\ FilterChanged(stateWithout(state, chip[1], chip[2]), "removeFilter")

\* A reset that forgets the search query.
resetStateKeepingSearch == [DefaultState EXCEPT !.searchQuery = state.searchQuery]

\* The state _resetAll assigns.
resetState ==
    [searchQuery |-> <<>>, types |-> {}, minBeds |-> 0, minBaths |-> 0,
     priceMin |-> Num(0), priceMax |-> Infinity, sqftMin |-> Num(0), sqftMax |-> Infinity,
     amenities |-> {}]

\* A click on 'Clear all', which exists while there are chips.
ResetAll ==
    /\ _getActiveChips(state) # {}
    /\ state' = resetState
    /\ searchInput' = <<>>
    /\ _emitChange(resetState)
    /\ _emitSearchChange
    /\ burst' = NoBurst
    /\ lastEvent' = "resetAll"
    /\ refreshCalls' = 1
    /\ UNCHANGED << stepVars, result, LISTINGS, startup, panels, mapPopups, detailModal, searchMap, createModal, UNIVERSITIES, acItems, _targetUniversity, targetNames,
                    bounds, priceMarkers, markerDivs >>

\* 'mousedown' on an autocomplete item that is no campus: _selectSuggestion.
SelectSuggestion(i) ==
    LET st == [state EXCEPT !.searchQuery = toLowerCase(acItems[i].value)]
    IN  /\ i \in 1..Len(acItems)
        /\ acItems[i].uni = <<>>
        /\ searchInput' = acItems[i].value
        /\ state' = st
        /\ acItems' = <<>>
        /\ _emitChange(st)
        /\ _emitSearchChange
        /\ burst' = NoBurst
        /\ lastEvent' = "selectSuggestion"
        /\ refreshCalls' = 1
        /\ UNCHANGED << stepVars, result, LISTINGS, startup, panels, mapPopups, detailModal, searchMap, createModal, UNIVERSITIES, _targetUniversity, targetNames, bounds,
                        priceMarkers, markerDivs >>

\* 'mousedown' on a campus item: _selectUniversitySuggestion. _emitChange runs
\* refreshView, then the onTargetChange callback runs it again.
SelectUniversitySuggestion(i) ==
    LET uni == findUniversity(UNIVERSITIES, acItems[i].uni)
        st == [state EXCEPT !.searchQuery = <<>>]
    IN  /\ i \in 1..Len(acItems)
        /\ acItems[i].uni # <<>>
        /\ uni # Null
        /\ _targetUniversity' = uni
        /\ searchInput' = <<>>
        /\ state' = st
        /\ acItems' = <<>>
        /\ onTargetChange(st, uni)
        /\ burst' = NoBurst
        /\ lastEvent' = "selectUniversity"
        /\ refreshCalls' = 2
        /\ UNCHANGED << stepVars, result, LISTINGS, startup, panels, mapPopups, detailModal, searchMap, createModal, UNIVERSITIES, _searchDebounceTimer, timers, bounds,
                        priceMarkers, markerDivs >>

\* ------------------------------------------------------------------------
\* The map SDK: viewport, overlays; the timers of the browser
\* ------------------------------------------------------------------------

\* The viewport changes (a drag, a zoom, or a pan that panTo or fitBounds asked for)
\* and has not settled yet: no handler of the program runs.
MapMoves(v) ==
    /\ v # bounds
    /\ bounds' = v
    /\ lastEvent' = "mapMove"
    /\ refreshCalls' = 0
    /\ UNCHANGED << stepVars, result, LISTINGS, startup, panels, mapPopups, detailModal, cardHighlight, searchMap, createModal, UNIVERSITIES, state, searchInput, acItems, _targetUniversity,
                    _searchDebounceTimer, timers, targetNames, priceMarkers, markerDivs,
                    filteredMarkers, cards, countLabel, placeholder, burst >>

\* 'idle': the viewport has settled. The listener of MapManager.init calls the
\* onBoundsChange callback, which runs refreshView.
MapIdle ==
    /\ bounds # Undefined
    /\ refreshView(state, bounds)
    /\ lastEvent' = "mapIdle"
    /\ refreshCalls' = 1
    /\ UNCHANGED << stepVars, result, LISTINGS, startup, panels, mapPopups, detailModal, searchMap, createModal, UNIVERSITIES, state, searchInput, acItems, _targetUniversity,
                    _searchDebounceTimer, timers, targetNames, bounds, priceMarkers,
                    markerDivs, burst >>

\* The SDK calls onAdd of a price marker overlay: the marker gets its div. The
\* overlays are attached in the order addListingMarkers called setMap.
MarkerOnAdd(id) ==
    /\ id \in idSet(priceMarkers) \ markerDivs
    /\ \A j \in 1..Len(priceMarkers) :
          priceMarkers[j].id = id => \A k \in 1..(j - 1) : priceMarkers[k].id \in markerDivs
    /\ markerDivs' = markerDivs \cup {id}
    /\ lastEvent' = "markerOnAdd"
    /\ refreshCalls' = 0
    /\ UNCHANGED << stepVars, result, LISTINGS, startup, panels, mapPopups, detailModal, cardHighlight, searchMap, createModal, UNIVERSITIES, state, searchInput, acItems, _targetUniversity,
                    _searchDebounceTimer, timers, targetNames, bounds, priceMarkers,
                    filteredMarkers, cards, countLabel, placeholder, burst >>

\* TickMs pass. A timeout that is due runs before more time passes.
Tick ==
    /\ \A t \in timers : t.remaining > 0
    /\ timers # {} \/ (burst.n >= 1 /\ burst.elapsed <= DebounceMs)
    /\ timers' = {[t EXCEPT !.remaining = @ - TickMs] : t \in timers}
    /\ burst' = IF burst.n >= 1 /\ burst.elapsed <= DebounceMs
                THEN [burst EXCEPT !.elapsed = @ + TickMs]
                ELSE burst
    /\ UNCHANGED << stepVars, result, LISTINGS, startup, panels, mapPopups, detailModal, cardHighlight, searchMap, createModal, UNIVERSITIES, state, searchInput, acItems, _targetUniversity,
                    _searchDebounceTimer, targetNames, bounds, priceMarkers, markerDivs,
                    filteredMarkers, cards, countLabel, placeholder, lastEvent, refreshCalls >>

\* The timeout of _emitSearchChange is due: the onSearchChange callback is called
\* with getSearchMatches() and runs up to its await.
SearchTimerFires(t) ==
    /\ t \in timers
    /\ t.remaining <= 0
    /\ timers' = timers \ {t}
    /\ burst' = IF burst.n >= 1
                THEN [burst EXCEPT !.calls = IF @ < 2 THEN @ + 1 ELSE @,
                                   !.at = burst.elapsed,
                                   !.arg = ids(getSearchMatches(state, LISTINGS))]
                ELSE burst
    /\ searchMap' = onSearchChange(searchMap, getSearchMatches(state, LISTINGS),
                                   state.searchQuery, UNIVERSITIES)
    /\ Len(searchMap'.lookups) <= MaxLookups
    /\ lastEvent' = "searchTimer"
    /\ refreshCalls' = 0
    /\ UNCHANGED << stepVars, result, LISTINGS, startup, panels, mapPopups, detailModal, cardHighlight, createModal, UNIVERSITIES, state, searchInput, acItems, _targetUniversity,
                    _searchDebounceTimer, targetNames, bounds, priceMarkers, markerDivs,
                    filteredMarkers, cards, countLabel, placeholder >>

\* ------------------------------------------------------------------------
\* Specifications
\* ------------------------------------------------------------------------

\* The filter controls: what changes the filter state or the target.
FilterEvent ==
    \/ \E name \in {UNIVERSITIES[i].name : i \in 1..Len(UNIVERSITIES)} : TargetSelect(name)
    \/ \E type \in allTypes(LISTINGS) : TypeChange(type)
    \/ \E amenity \in allAmenities(LISTINGS) : AmenityChange(amenity)
    \/ \E value \in BedsOptions : BedsChange(value)
    \/ \E value \in BathsOptions : BathsChange(value)
    \/ \E value \in PriceTexts : PriceMinInput(value)
    \/ \E value \in PriceTexts : PriceMaxInput(value)
    \/ \E value \in SqftTexts : SqftMinInput(value)
    \/ \E value \in SqftTexts : SqftMaxInput(value)
    \/ \E chip \in _getActiveChips(state) : RemoveFilter(chip)

\* The search box and 'Clear all', which schedule the debounced callback.
SearchEvent ==
    \/ \E text \in SearchTexts : SearchInput(text)
    \/ \E i \in 1..Len(acItems) : SelectSuggestion(i)
    \/ \E i \in 1..Len(acItems) : SelectUniversitySuggestion(i)
    \/ ResetAll

\* What the map SDK does.
MapEvent ==
    \/ \E v \in Viewports : MapMoves(v)
    \/ MapIdle
    \/ \E id \in idSet(priceMarkers) : MarkerOnAdd(id)

\* Spec: the view. Every event that changes what the sidebar and the markers
\* show; timeouts stay pending (SpecSearch lets the time pass).
Next == FilterEvent \/ SearchEvent \/ MapEvent

Spec == Init /\ [][Next]_vars

\* SpecSearch: the search box and its debounce, on a map that has settled on the
\* widest viewport.
InitSearch ==
    /\ LISTINGS = Catalog
    /\ UNIVERSITIES = Campuses
    /\ state = DefaultState
    /\ searchInput = <<>>
    /\ acItems = <<>>
    /\ _targetUniversity = defaultTarget(Campuses)
    /\ _searchDebounceTimer = NoTimer
    /\ timers = {}
    /\ targetNames = recomputeDistances(Catalog, defaultTarget(Campuses))
    /\ bounds = Viewport(0, MaxCoord, 0, MaxCoord)
    /\ priceMarkers = addListingMarkers(Catalog)
    /\ markerDivs = idSet(Catalog)
    /\ filteredMarkers = {}
    /\ cards \in render(getFilteredVisibleListings(DefaultState, Viewport(0, MaxCoord, 0, MaxCoord)))
    /\ countLabel = Len(cards)
    /\ placeholder = FALSE
    /\ lastEvent = "mapIdle"
    /\ refreshCalls = 1
    /\ burst = NoBurst
    /\ pc = "idle"
    /\ filtered = <<>>
    /\ passingIds = {}
    /\ result = NoResult
    /\ startup = startedUp(LISTINGS, UNIVERSITIES, _targetUniversity)
    /\ searchMap = SearchMapAtStart
    /\ createModal = CreateModalAtStart
    /\ panels = PanelsAtStart
    /\ mapPopups = MapPopupsAtStart(UNIVERSITIES)
    /\ detailModal = DetailModalAtStart
    /\ cardHighlight = CardHighlightAtStart

NextSearch ==
    \/ SearchEvent
    \/ SearchFocus
    \/ HideAutocomplete
    \/ \E type \in allTypes(LISTINGS) : TypeChange(type)
    \/ Tick
    \/ \E t \in timers : SearchTimerFires(t)

SpecSearch == InitSearch /\ [][NextSearch]_vars

\* ------------------------------------------------------------------------
\* The search debounce (SpecSearch)
\* ------------------------------------------------------------------------

\* What the callback of a burst is due to receive: the ids of the listings that
\* match the query of the last input event.
burstMatches == ids(getSearchMatches([DefaultState EXCEPT !.searchQuery = burst.text], LISTINGS))

\* C5: a burst of n >= 1 search input events, each less than 400 ms after the one
\* before, invokes the search-change callback exactly once: not before 400 ms have
\* passed since the last event, at 400 ms (within one tick of it), and with the
\* listings that match the text of the last event.
C5_BurstInvokesCallbackOnce ==
    burst.n >= 1 =>
        /\ burst.calls <= 1
        /\ burst.elapsed < DebounceMs => burst.calls = 0
        /\ burst.elapsed >= DebounceMs + TickMs => burst.calls = 1
        /\ burst.calls = 1 =>
              /\ burst.at >= DebounceMs
              /\ burst.at < DebounceMs + TickMs
              /\ burst.arg = burstMatches

\* A burst of at least two events has had its one callback, which found a listing.
C5_Witness ==
    /\ burst.n >= 2
    /\ burst.calls = 1
    /\ burst.arg # <<>>
    /\ lastEvent = "searchTimer"

\* C6: at most one search debounce timeout is pending in every reachable state.
C6_OneTimerPending == Cardinality(timers) <= 1

\* A second input of a burst has replaced the timeout of the first.
C6_Witness ==
    /\ burst.n >= 2
    /\ burst.elapsed < DebounceMs
    /\ Cardinality(timers) = 1
    /\ \E t \in timers : t.id = _searchDebounceTimer /\ t.remaining = DebounceMs

\* C7 as stated: a search input event runs no refresh; the refresh of a burst waits
\* for the debounced callback.
C7_InputRunsNoRefresh == lastEvent = "searchInput" => refreshCalls = 0

\* C7, amended: every search input event runs refreshView once, at once, so the
\* cards and the dimming follow each keystroke; the debounced callback itself
\* runs no refresh.
C7_InputRefreshesAtOnce ==
    /\ lastEvent = "searchInput" =>
          /\ refreshCalls = 1
          /\ cards \in render(getFilteredVisibleListings(state, bounds))
          /\ filteredMarkers = idSet(LISTINGS) \ getPassingIds(state, LISTINGS)
    /\ lastEvent = "searchTimer" => refreshCalls = 0

\* A keystroke has changed the cards while its timeout is still pending.
C7_Witness ==
    /\ lastEvent = "searchInput"
    /\ state.searchQuery # <<>>
    /\ timers # {}
    /\ Len(cards) = 1
    /\ filteredMarkers # {}

\* ------------------------------------------------------------------------
\* The view (Spec)
\* ------------------------------------------------------------------------

\* The events whose handler runs refreshView: the viewport settling, the filter
\* mutations and the target changes.
ViewEvents ==
    {"mapIdle", "targetSelect", "typeChange", "amenityChange", "bedsChange", "bathsChange",
     "priceMinInput", "priceMaxInput", "sqftMinInput", "sqftMaxInput", "searchInput",
     "removeFilter", "resetAll", "selectSuggestion", "selectUniversity"}

cardSet == {cards[i] : i \in 1..Len(cards)}

C3_PassingIdsCoverCards ==
    /\ \A v \in Viewports \cup {Undefined, bounds} :
          idSet(getFilteredVisibleListings(state, v)) \subseteq getPassingIds(state, LISTINGS)
    /\ lastEvent \in ViewEvents => cardSet \subseteq getPassingIds(state, LISTINGS)

\* A listing passes the filters but lies outside the viewport: the inclusion is strict.
C3_Witness ==
    /\ lastEvent \in ViewEvents
    /\ bounds \in Viewports
    /\ cardSet # {}
    /\ cardSet # getPassingIds(state, LISTINGS)
    /\ _getActiveChips(state) # {}

\* C4: when refresh has completed, a price marker that has a DOM element carries the
\* filtered class iff the id of its listing is not among the passing ids of the full
\* collection, whether the marker is inside the viewport or not.
C4_DimmedIffNotPassing ==
    lastEvent \in ViewEvents =>
        \A i \in 1..Len(priceMarkers) :
            priceMarkers[i].id \in markerDivs =>
                (priceMarkers[i].id \in filteredMarkers
                    <=> priceMarkers[i].id \notin getPassingIds(state, LISTINGS))

\* A marker outside the viewport is dimmed, a passing marker is not, and a marker
\* without a DOM element is left alone.
C4_Witness ==
    /\ lastEvent \in ViewEvents
    /\ bounds # Undefined
    /\ \E i \in 1..Len(priceMarkers) :
          /\ priceMarkers[i].id \in filteredMarkers
          /\ ~contains(bounds, priceMarkers[i].lat, priceMarkers[i].lng)
    /\ \E i \in 1..Len(priceMarkers) : priceMarkers[i].id \in markerDivs \ filteredMarkers
    /\ \E i \in 1..Len(priceMarkers) :
          /\ priceMarkers[i].id \notin markerDivs
          /\ priceMarkers[i].id \notin getPassingIds(state, LISTINGS)

\* Listings as fetchListings can return them: a price that is a number or NaN, a
\* sqft that is a number or null, an address with or without city and zip.
ProbeListings ==
    {Listing(1, price, address, bedrooms, bathrooms, sqft, type, amenities, Num(1), Num(1)) :
        price \in {Num(900), Num(1500), NaN},
        address \in {Addr3, Addr4},
        bedrooms \in {1, 2},
        bathrooms \in {1, 2},
        sqft \in {Null, Num(900)},
        type \in {"Apartment", "House"},
        amenities \in {<<>>, <<"Pool", "Gym">>}}

\* C9: after 'Clear all' the filter state equals the defaults (empty search, no
\* type, minBeds 0, minBaths 0, price from 0 to Infinity, sqft from 0 to Infinity,
\* no amenity) and applyFilters returns every listing of a collection unchanged.
C9_ResetRestoresDefaults ==
    lastEvent = "resetAll" =>
        /\ state = [searchQuery |-> <<>>, types |-> {}, minBeds |-> 0, minBaths |-> 0,
                    priceMin |-> Num(0), priceMax |-> Infinity,
                    sqftMin |-> Num(0), sqftMax |-> Infinity, amenities |-> {}]
        /\ applyFilters(state, LISTINGS) = LISTINGS
        /\ \A l \in ProbeListings :
              /\ applyFilters(state, <<l>>) = <<l>>
              /\ applyFilters(state, <<l>> \o LISTINGS) = <<l>> \o LISTINGS

\* 'Clear all' has run on a search query, and every listing in the viewport has
\* its card again.
C9_Witness ==
    /\ lastEvent = "resetAll"
    /\ searchInput = <<>>
    /\ timers # {}
    /\ bounds = Viewport(0, MaxCoord, 0, MaxCoord)
    /\ Len(cards) = 2
    /\ filteredMarkers = {}
    /\ markerDivs # {}

\* ------------------------------------------------------------------------
\* applyFilters on its own (SpecFilter)
\* ------------------------------------------------------------------------

\* Filter states the controls can produce: every rule is off in some and on in some.
FilterStates ==
    {[searchQuery |-> q, types |-> t, minBeds |-> b, minBaths |-> b2,
      priceMin |-> p[1], priceMax |-> p[2], sqftMin |-> sq[1], sqftMax |-> sq[2],
      amenities |-> a] :
        q \in {<<>>, <<"o","j">>, <<"3","0","2","3","5">>},
        t \in {{}, {"House"}},
        b \in {0, 2},
        b2 \in {0, 2},
        p \in {<<Num(0), Infinity>>, <<Num(1000), Infinity>>, <<Num(0), Num(1000)>>},
        sq \in {<<Num(0), Infinity>>, <<Num(0), Num(800)>>},
        a \in {{}, {"Pool", "Gym"}}}

\* The filter bar holds a filter state, the collection holds one listing.
InitFilter ==
    /\ LISTINGS \in {<<l>> : l \in ProbeListings}
    /\ UNIVERSITIES = Campuses
    /\ state \in FilterStates
    /\ searchInput = state.searchQuery
    /\ acItems = <<>>
    /\ _targetUniversity = defaultTarget(Campuses)
    /\ _searchDebounceTimer = NoTimer
    /\ timers = {}
    /\ targetNames = recomputeDistances(LISTINGS, defaultTarget(Campuses))
    /\ bounds = Undefined
    /\ priceMarkers = addListingMarkers(LISTINGS)
    /\ markerDivs = {}
    /\ filteredMarkers = {}
    /\ cards = <<>>
    /\ countLabel = 0
    /\ placeholder = FALSE
    /\ lastEvent = "init"
    /\ refreshCalls = 0
    /\ burst = NoBurst
    /\ pc = "idle"
    /\ filtered = <<>>
    /\ passingIds = {}
    /\ result = NoResult
    /\ startup = startedUp(LISTINGS, UNIVERSITIES, _targetUniversity)
    /\ searchMap = SearchMapAtStart
    /\ createModal = CreateModalAtStart
    /\ panels = PanelsAtStart
    /\ mapPopups = MapPopupsAtStart(UNIVERSITIES)
    /\ detailModal = DetailModalAtStart
    /\ cardHighlight = CardHighlightAtStart

\* filterManager.applyFilters(LISTINGS)
CallApplyFilters ==
    /\ result = NoResult
    /\ result' = [of |-> "applyFilters", value |-> applyFilters(state, LISTINGS)]
    /\ UNCHANGED << appVars, stepVars >>

NextFilter == CallApplyFilters

SpecFilter == InitFilter /\ [][NextFilter]_vars

\* The seven rules of the filter, each as the claim words it; the comparisons are
\* those of JavaScript (null counts as 0, NaN compares false).
SevenRules(F, L) ==
    /\ \/ F.searchQuery = <<>>
       \/ includes(toLowerCase(_parseCity(L.address)), toLowerCase(F.searchQuery))
       \/ includes(_parseZip(L.address), toLowerCase(F.searchQuery))
       \/ includes(toLowerCase(L.address), toLowerCase(F.searchQuery))
    /\ F.types = {} \/ L.type \in F.types
    /\ L.bedrooms >= F.minBeds
    /\ L.bathrooms >= F.minBaths
    /\ JsLe(F.priceMin, L.price) /\ JsLe(L.price, F.priceMax)
    /\ JsLe(F.sqftMin, L.sqft) /\ JsLe(L.sqft, F.sqftMax)
    /\ \A a \in F.amenities : has(L.amenities, a)

\* C1: for every listing L and every filter state F, applyFilters keeps L iff L
\* satisfies the seven rules (search, type, beds, baths, price range, sqft range,
\* amenities) at once.
C1_KeepsIffSevenRules ==
    result.of = "applyFilters" =>
        \A i \in 1..Len(LISTINGS) :
            has(result.value, LISTINGS[i]) <=> SevenRules(state, LISTINGS[i])

\* Where the price is a number the code and the seven rules agree: the listings
\* they disagree on are those whose price is NaN.
RulesAgreeOnNumericPrices ==
    result.of = "applyFilters" =>
        \A i \in 1..Len(LISTINGS) :
            LISTINGS[i].price # NaN =>
                (has(result.value, LISTINGS[i]) <=> SevenRules(state, LISTINGS[i]))

\* ------------------------------------------------------------------------
\* CardRenderer.render on its own (SpecRender)
\* ------------------------------------------------------------------------

\* The longest list handed to render.
MaxCards == 3

\* The lists refreshView can hand to render: listings 1..n of the collection in
\* order, each with a price that is a number or NaN and a sqft that is a number or
\* null.
RenderInputs ==
    UNION {{[i \in 1..n |-> Listing(i, prices[i], Addr3, 1, 1, areas[i], "House", <<>>,
                                    Num(1), Num(1))] :
              prices \in [1..n -> {Num(900), Num(1200), Num(1500), NaN}],
              areas \in [1..n -> {Num(700), Null}]} : n \in 0..MaxCards}

\* What the panel can show before a call of render: the page as loaded, the
\* placeholder of an empty render, or the cards of an earlier render (of one
\* listing that may be in the new list and of one that is not).
PreviousContents ==
    { [count |-> 0, placeholder |-> FALSE, cards |-> <<>>],
      [count |-> 0, placeholder |-> TRUE, cards |-> <<>>],
      [count |-> 2, placeholder |-> FALSE, cards |-> <<1, MaxCards + 1>>] }

InitRender ==
    /\ filtered \in RenderInputs
    /\ LISTINGS = filtered
    /\ UNIVERSITIES = Campuses
    /\ state = DefaultState
    /\ searchInput = <<>>
    /\ acItems = <<>>
    /\ _targetUniversity = defaultTarget(Campuses)
    /\ _searchDebounceTimer = NoTimer
    /\ timers = {}
    /\ targetNames = recomputeDistances(LISTINGS, defaultTarget(Campuses))
    /\ bounds = Undefined
    /\ priceMarkers = addListingMarkers(LISTINGS)
    /\ markerDivs = {}
    /\ filteredMarkers = {}
    /\ \E before \in PreviousContents :
          /\ cards = before.cards
          /\ countLabel = before.count
          /\ placeholder = before.placeholder
    /\ lastEvent = "init"
    /\ refreshCalls = 0
    /\ burst = NoBurst
    /\ pc = "idle"
    /\ passingIds = {}
    /\ result = NoResult
    /\ startup = startedUp(LISTINGS, UNIVERSITIES, _targetUniversity)
    /\ searchMap = SearchMapAtStart
    /\ createModal = CreateModalAtStart
    /\ panels = PanelsAtStart
    /\ mapPopups = MapPopupsAtStart(UNIVERSITIES)
    /\ detailModal = DetailModalAtStart
    /\ cardHighlight = CardHighlightAtStart

\* cardRenderer.render(filtered): the sort works on the copy [...listings], the
\* list of the caller stays as it is.
CallRender ==
    /\ result = NoResult
    /\ \E o \in renderOutcomes(filtered) :
          /\ cards' = o.cards
          /\ countLabel' = o.count
          /\ placeholder' = o.placeholder
          /\ cardHighlight' = emptied(cardHighlight)
          /\ result' = [of |-> IF o.threw THEN "render threw" ELSE "render", value |-> filtered]
    /\ UNCHANGED << LISTINGS, startup, panels, mapPopups, detailModal, searchMap, createModal, UNIVERSITIES, state, searchInput, acItems, _targetUniversity,
                    _searchDebounceTimer, timers, targetNames, bounds, priceMarkers,
                    markerDivs, filteredMarkers, lastEvent, refreshCalls, burst, stepVars >>

NextRender == CallRender

SpecRender == InitRender /\ [][NextRender]_vars

\* The price of the listing a card shows.
priceOfCard(k) == LISTINGS[CHOOSE i \in 1..Len(LISTINGS) : LISTINGS[i].id = cards[k]].price

\* The place of a card's listing in the list handed to render.
placeOfCard(k) == CHOOSE i \in 1..Len(filtered) : filtered[i].id = cards[k]

\* C10: the cards are in ascending order of price, listings of equal price keep the
\* order they had in the list handed to render, and that list is not reordered.
C10_CardsAscendByPrice ==
    result.of = "render" =>
        /\ \A j, k \in 1..Len(cards) :
              j < k => /\ ~JsGt(priceOfCard(j), priceOfCard(k))
                       /\ priceOfCard(j) = priceOfCard(k) => placeOfCard(j) < placeOfCard(k)
        /\ filtered = LISTINGS

\* With prices that are numbers the cards are the stable ascending sort.
CardsAscendOnNumericPrices ==
    (result.of = "render" /\ \A i \in 1..Len(filtered) : filtered[i].price # NaN) =>
        \A j, k \in 1..Len(cards) :
            j < k => /\ ~JsGt(priceOfCard(j), priceOfCard(k))
                     /\ priceOfCard(j) = priceOfCard(k) => placeOfCard(j) < placeOfCard(k)

\* render(filtered) has run, to its end or to an exception.
renderHasRun == result.of \in {"render", "render threw"}

\* C11: after render(L), whatever the panel showed before, the cards are exactly
\* one card per listing of L, the count label shows the length of L, and an empty L
\* shows the placeholder and no card.
C11_RenderReplacesContent ==
    renderHasRun =>
        /\ Len(cards) = Len(filtered)
        /\ {cards[k] : k \in 1..Len(cards)} = idSet(filtered)
        /\ countLabel = Len(filtered)
        /\ filtered = <<>> => placeholder /\ cards = <<>>

\* Where every listing of L has a sqft the claim of C11 holds: nothing of the
\* previous content survives, and the placeholder shows exactly for an empty L.
RenderReplacesContentWithAreas ==
    (renderHasRun /\ \A i \in 1..Len(filtered) : filtered[i].sqft # Null) =>
        /\ result.of = "render"
        /\ Len(cards) = Len(filtered)
        /\ {cards[k] : k \in 1..Len(cards)} = idSet(filtered)
        /\ countLabel = Len(filtered)
        /\ placeholder <=> filtered = <<>>

\* ------------------------------------------------------------------------
\* refreshView statement by statement (SpecSteps)
\* ------------------------------------------------------------------------

\* An event loop that would run a handler while refreshView is under way.
HandlerMayRunAnytime == TRUE

\* refreshView is a synchronous function without await: the event loop runs the
\* next handler, and the SDK moves the map, only when it has returned.
HandlerMayRun == pc = "idle"

\* A handler has changed the filter state to st (or nothing) and calls refreshView.
CallRefreshView(event) ==
    /\ pc' = "259"
    /\ lastEvent' = event
    /\ refreshCalls' = 0
    /\ UNCHANGED << filtered, passingIds, result, LISTINGS, startup, panels, mapPopups, detailModal, cardHighlight, searchMap, createModal, UNIVERSITIES, _targetUniversity,
                    targetNames, bounds, priceMarkers, markerDivs, filteredMarkers, cards, countLabel, placeholder >>

\* 'change' on a type checkbox, up to the call of refreshView.
StepTypeChange(type) ==
    LET st == [state EXCEPT !.types = IF type \in @ THEN @ \ {type} ELSE @ \cup {type}]
    IN  /\ HandlerMayRun
        /\ Cardinality(_getActiveChips(st)) <= MaxChips
        /\ state' = st
        /\ CallRefreshView("typeChange")
        /\ UNCHANGED << searchInput, acItems, _searchDebounceTimer, timers, burst >>

\* 'input' on the search box, up to the call of refreshView; _emitSearchChange
\* runs when refreshView has returned and is taken here with the rest of the handler.
StepSearchInput(text) ==
    /\ HandlerMayRun
    /\ text # searchInput
    /\ searchInput' = text
    /\ state' = [state EXCEPT !.searchQuery = toLowerCase(trim(text))]
    /\ acItems' = _showAutocomplete(LISTINGS, UNIVERSITIES, trim(text))
    /\ _emitSearchChange
    /\ burst' = burstAfterInput(toLowerCase(trim(text)))
    /\ CallRefreshView("searchInput")

\* 'idle' of the map, up to the call of refreshView.
StepMapIdle ==
    /\ HandlerMayRun
    /\ bounds # Undefined
    /\ CallRefreshView("mapIdle")
    /\ UNCHANGED << state, searchInput, acItems, _searchDebounceTimer, timers, burst >>

\* app.js line 259: const filtered = getFilteredVisibleListings()
Refresh259 ==
    /\ pc = "259"
    /\ filtered' = getFilteredVisibleListings(state, bounds)
    /\ pc' = "260"
    /\ UNCHANGED << appVars, passingIds, result >>

\* line 260: cardRenderer.render(filtered)
Refresh260 ==
    /\ pc = "260"
    /\ \E o \in renderOutcomes(filtered) :
          /\ cards' = o.cards
          /\ countLabel' = o.count
          /\ placeholder' = o.placeholder
          /\ cardHighlight' = emptied(cardHighlight)
          /\ pc' = IF o.threw THEN "idle" ELSE "263"
    /\ UNCHANGED << LISTINGS, startup, panels, mapPopups, detailModal, searchMap, createModal, UNIVERSITIES, state, searchInput, acItems, _targetUniversity,
                    _searchDebounceTimer, timers, targetNames, bounds, priceMarkers,
                    markerDivs, filteredMarkers, lastEvent, refreshCalls, burst,
                    filtered, passingIds, result >>

\* line 263: const passingIds = filterManager.getPassingIds()
Refresh263 ==
    /\ pc = "263"
    /\ passingIds' = getPassingIds(state, LISTINGS)
    /\ pc' = "264"
    /\ UNCHANGED << appVars, filtered, result >>

\* line 264: mapManager.updateMarkerVisibility(passingIds); refreshView returns.
Refresh264 ==
    /\ pc = "264"
    /\ filteredMarkers' = updateMarkerVisibility(priceMarkers, markerDivs, filteredMarkers,
                                                 passingIds)
    /\ pc' = "idle"
    /\ refreshCalls' = 1
    /\ UNCHANGED << LISTINGS, startup, panels, mapPopups, detailModal, cardHighlight, searchMap, createModal, UNIVERSITIES, state, searchInput, acItems, _targetUniversity,
                    _searchDebounceTimer, timers, targetNames, bounds, priceMarkers,
                    markerDivs, cards, countLabel, placeholder, lastEvent, burst, filtered, passingIds, result >>

NextSteps ==
    \/ \E type \in allTypes(LISTINGS) : StepTypeChange(type)
    \/ \E text \in SearchTexts : StepSearchInput(text)
    \/ StepMapIdle
    \/ Refresh259
    \/ Refresh260
    \/ Refresh263
    \/ Refresh264
    \/ \E v \in Viewports : HandlerMayRun /\ MapMoves(v)
    \/ \E id \in idSet(priceMarkers) : HandlerMayRun /\ MarkerOnAdd(id)
    \/ Tick
    \/ \E t \in timers : HandlerMayRun /\ SearchTimerFires(t)

SpecSteps == Init /\ [][NextSteps]_vars

\* C8: no event is handled between the steps of refreshView, so what one refresh
\* has computed so far always stems from the filter state and the viewport of the
\* moment, and when it returns the cards and the dimming are those of one filter
\* state and one viewport.
C8_RefreshIsAtomic ==
    /\ pc \in {"260", "263", "264"} => filtered = getFilteredVisibleListings(state, bounds)
    /\ pc \in {"263", "264"} => cards \in render(getFilteredVisibleListings(state, bounds))
    /\ pc = "264" => passingIds = getPassingIds(state, LISTINGS)
    /\ (pc = "idle" /\ refreshCalls = 1) =>
          /\ cards \in render(getFilteredVisibleListings(state, bounds))
          /\ filteredMarkers = markerDivs \ getPassingIds(state, LISTINGS)

\* A refresh has returned with one card of two visible listings and a dimmed marker.
C8_Witness ==
    /\ pc = "idle"
    /\ refreshCalls = 1
    /\ bounds = Viewport(0, MaxCoord, 0, MaxCoord)
    /\ Len(cards) = 1
    /\ filteredMarkers # {}
    /\ timers # {}

\* ------------------------------------------------------------------------
\* The target university, handler statement by statement (SpecTarget)
\* ------------------------------------------------------------------------

\* The university collections fetchUniversities can return: none (the request
\* failed or the table is empty), one without CSUN, and both orders of two.
UniversityCollections == { <<>>, <<UCLA>>, <<UCLA, CSUN>>, <<CSUN, UCLA>> }

\* What the user types to find a campus.
CampusTexts == { <<"u","c">>, <<"c","s">> }

\* init() has returned, for each collection of universities.
InitTarget ==
    /\ LISTINGS = Catalog
    /\ UNIVERSITIES \in UniversityCollections
    /\ state = DefaultState
    /\ searchInput = <<>>
    /\ acItems = <<>>
    /\ _targetUniversity = defaultTarget(UNIVERSITIES)
    /\ _searchDebounceTimer = NoTimer
    /\ timers = {}
    /\ targetNames = IF defaultTarget(UNIVERSITIES) # Null
                     THEN recomputeDistances(Catalog, defaultTarget(UNIVERSITIES))
                     ELSE [id \in idSet(Catalog) |-> <<>>]
    /\ bounds = Undefined
    /\ priceMarkers = addListingMarkers(Catalog)
    /\ markerDivs = {}
    /\ filteredMarkers = {}
    /\ cards = <<>>
    /\ countLabel = 0
    /\ placeholder = FALSE
    /\ lastEvent = "init"
    /\ refreshCalls = 0
    /\ burst = NoBurst
    /\ pc = "idle"
    /\ filtered = <<>>
    /\ passingIds = {}
    /\ result = NoResult
    /\ startup = startedUp(LISTINGS, UNIVERSITIES, _targetUniversity)
    /\ searchMap = SearchMapAtStart
    /\ createModal = CreateModalAtStart
    /\ panels = PanelsAtStart
    /\ mapPopups = MapPopupsAtStart(UNIVERSITIES)
    /\ detailModal = DetailModalAtStart
    /\ cardHighlight = CardHighlightAtStart

\* map.js lines 623-625: 'change' on the target select up to the call of the
\* onTargetChange callback.
TargetSelect625(name) ==
    LET uni == findUniversity(UNIVERSITIES, name)
    IN  /\ HandlerMayRun
        /\ uni # Null
        /\ _targetUniversity' = uni
        /\ pc' = "290"
        /\ lastEvent' = "targetSelect"
        /\ refreshCalls' = 0
        /\ UNCHANGED << LISTINGS, startup, panels, mapPopups, detailModal, cardHighlight, searchMap, createModal, UNIVERSITIES, state, searchInput, acItems,
                        _searchDebounceTimer, timers, targetNames, bounds, priceMarkers,
                        markerDivs, filteredMarkers, cards, countLabel, placeholder, burst,
                        filtered, passingIds, result >>

\* map.js lines 993-1004: _selectUniversitySuggestion up to the call of _emitChange.
SelectUniversity997(i) ==
    LET uni == findUniversity(UNIVERSITIES, acItems[i].uni)
    IN  /\ HandlerMayRun
        /\ i \in 1..Len(acItems)
        /\ acItems[i].uni # <<>>
        /\ uni # Null
        /\ _targetUniversity' = uni
        /\ searchInput' = <<>>
        /\ state' = [state EXCEPT !.searchQuery = <<>>]
        /\ acItems' = <<>>
        /\ burst' = NoBurst
        /\ pc' = "1005"
        /\ lastEvent' = "selectUniversity"
        /\ refreshCalls' = 0
        /\ UNCHANGED << LISTINGS, startup, panels, mapPopups, detailModal, cardHighlight, searchMap, createModal, UNIVERSITIES, _searchDebounceTimer, timers, targetNames,
                        bounds, priceMarkers, markerDivs, filteredMarkers, cards, countLabel,
                        placeholder, filtered, passingIds, result >>

\* map.js line 1005: this._emitChange(), whose onChange callback is refreshView.
SelectUniversity1005 ==
    /\ pc = "1005"
    /\ refreshView(state, bounds)
    /\ refreshCalls' = 1
    /\ pc' = "290"
    /\ UNCHANGED << LISTINGS, startup, panels, mapPopups, detailModal, searchMap, createModal, UNIVERSITIES, state, searchInput, acItems, _targetUniversity,
                    _searchDebounceTimer, timers, targetNames, bounds, priceMarkers,
                    markerDivs, lastEvent, burst, filtered, passingIds, result >>

\* An onTargetChange callback that does not recompute the distances.
OnTargetChange290Skipped ==
    /\ pc = "290"
    /\ pc' = "293"
    /\ refreshCalls' = 0
    /\ UNCHANGED << appVars, filtered, passingIds, result >>

\* app.js lines 290-292: the onTargetChange callback recomputes the distances for
\* the university it was handed (the target just assigned), marks its marker and
\* asks the map to pan.
OnTargetChange290 ==
    /\ pc = "290"
    /\ targetNames' = recomputeDistances(LISTINGS, _targetUniversity)
    /\ mapPopups' = setTargetUniversity(mapPopups, _targetUniversity.name)
    /\ pc' = "293"
    /\ refreshCalls' = 0
    /\ UNCHANGED << LISTINGS, startup, panels, detailModal, cardHighlight, searchMap, createModal, UNIVERSITIES, state, searchInput, acItems, _targetUniversity,
                    _searchDebounceTimer, timers, bounds, priceMarkers, markerDivs,
                    filteredMarkers, cards, countLabel, placeholder, lastEvent, burst,
                    filtered, passingIds, result >>

\* app.js line 293: refreshView(), and the handler returns.
OnTargetChange293 ==
    /\ pc = "293"
    /\ refreshView(state, bounds)
    /\ refreshCalls' = 1
    /\ pc' = "idle"
    /\ UNCHANGED << LISTINGS, startup, panels, mapPopups, detailModal, searchMap, createModal, UNIVERSITIES, state, searchInput, acItems, _targetUniversity,
                    _searchDebounceTimer, timers, targetNames, bounds, priceMarkers,
                    markerDivs, lastEvent, burst, filtered, passingIds, result >>

NextTarget ==
    \/ \E name \in {UNIVERSITIES[i].name : i \in 1..Len(UNIVERSITIES)} : TargetSelect625(name)
    \/ \E i \in 1..Len(acItems) : SelectUniversity997(i)
    \/ SelectUniversity1005
    \/ OnTargetChange290
    \/ OnTargetChange293
    \/ \E text \in CampusTexts : HandlerMayRun /\ SearchInput(text)
    \/ \E v \in Viewports : HandlerMayRun /\ MapMoves(v)
    \/ HandlerMayRun /\ MapIdle
    \/ \E id \in idSet(priceMarkers) : HandlerMayRun /\ MarkerOnAdd(id)

SpecTarget == InitTarget /\ [][NextTarget]_vars

\* Every listing's _targetName is the name of the filter manager's target.
distancesReferTo(uni) == \A id \in DOMAIN targetNames : targetNames[id] = uni.name

C13_RecomputeBeforeRefresh ==
    (refreshCalls = 1 /\ _targetUniversity # Null) => distancesReferTo(_targetUniversity)

\* On the path of the target select the distances are recomputed before the
\* refresh; the refresh that runs ahead of the recompute is the one of the campus
\* suggestion (_emitChange at map.js line 1005).
SelectRecomputesBeforeRefresh ==
    (refreshCalls = 1 /\ _targetUniversity # Null /\ lastEvent # "selectUniversity")
        => distancesReferTo(_targetUniversity)

\* getTargetUniversity() returns a university of the loaded collection.
targetIsLoaded == \E i \in 1..Len(UNIVERSITIES) : UNIVERSITIES[i] = _targetUniversity

\* C14 as stated: in every state after startup, for every loaded collection,
\* getTargetUniversity() returns one university of the collection.
C14_ExactlyOneTarget == targetIsLoaded

\* C14: for a collection that is not empty the target is always one university of
\* the collection; for the empty collection getTargetUniversity() returns null.
C14_OneTargetUnlessNoUniversity ==
    IF UNIVERSITIES = <<>> THEN _targetUniversity = Null ELSE targetIsLoaded

\* The target select has made UCLA the target of a collection of two whose default
\* target is CSUN.
C14_Witness ==
    /\ pc = "idle"
    /\ lastEvent = "targetSelect"
    /\ Len(UNIVERSITIES) = 2
    /\ defaultTarget(UNIVERSITIES) = CSUN
    /\ _targetUniversity = UCLA

\* ------------------------------------------------------------------------
\* init() from its two requests on (SpecInit)
\* ------------------------------------------------------------------------

\* The page has loaded and init awaits Promise.all of the two fetch functions.
\* LISTINGS and UNIVERSITIES are the empty arrays of their declarations; no module
\* exists yet (the variables of the modules hold what their constructors assign).
InitStartup ==
    /\ LISTINGS = <<>>
    /\ UNIVERSITIES = <<>>
    /\ state = DefaultState
    /\ searchInput = <<>>
    /\ acItems = <<>>
    /\ _targetUniversity = Null
    /\ _searchDebounceTimer = NoTimer
    /\ timers = {}
    /\ targetNames = <<>>
    /\ bounds = Undefined
    /\ priceMarkers = <<>>
    /\ markerDivs = {}
    /\ filteredMarkers = {}
    /\ cards = <<>>
    /\ countLabel = 0
    /\ placeholder = FALSE
    /\ lastEvent = "load"
    /\ refreshCalls = 0
    /\ burst = NoBurst
    /\ pc = "idle"
    /\ filtered = <<>>
    /\ passingIds = {}
    /\ result = NoResult
    /\ startup = NotStarted
    /\ searchMap = SearchMapAtStart
    /\ createModal = CreateModalAtStart
    /\ panels = PanelsAtStart
    /\ mapPopups = MapPopupsAtStart(UNIVERSITIES)
    /\ detailModal = DetailModalAtStart
    /\ cardHighlight = CardHighlightAtStart

\* A listings request whose result is assigned to LISTINGS as soon as it is there.
ListingsResponseApplied(response) ==
    /\ startup.listings.settled = "pending"
    /\ startup' = [startup EXCEPT !.listings = fetchListings(response)]
    /\ LISTINGS' = fetchListings(response).value
    /\ UNCHANGED << UNIVERSITIES, state, searchInput, acItems, _targetUniversity,
                    _searchDebounceTimer, timers, targetNames, bounds, priceMarkers,
                    markerDivs, filteredMarkers, cards, countLabel, placeholder, lastEvent,
                    refreshCalls, burst, stepVars, result, searchMap, createModal, panels,
              mapPopups, detailModal, cardHighlight >>

\* The listings request is answered: the promise of fetchListings settles.
ListingsResponse(response) ==
    /\ startup.listings.settled = "pending"
    /\ startup' = [startup EXCEPT !.listings = fetchListings(response)]
    /\ UNCHANGED << LISTINGS, UNIVERSITIES, state, searchInput, acItems, _targetUniversity,
                    _searchDebounceTimer, timers, targetNames, bounds, priceMarkers,
                    markerDivs, filteredMarkers, cards, countLabel, placeholder, lastEvent,
                    refreshCalls, burst, stepVars, result, searchMap, createModal, panels,
              mapPopups, detailModal, cardHighlight >>

\* The universities request is answered: the promise of fetchUniversities settles.
UniversitiesResponse(response) ==
    /\ startup.universities.settled = "pending"
    /\ startup' = [startup EXCEPT !.universities = fetchUniversities(response)]
    /\ UNCHANGED << LISTINGS, UNIVERSITIES, state, searchInput, acItems, _targetUniversity,
                    _searchDebounceTimer, timers, targetNames, bounds, priceMarkers,
                    markerDivs, filteredMarkers, cards, countLabel, placeholder, lastEvent,
                    refreshCalls, burst, stepVars, result, searchMap, createModal, panels,
              mapPopups, detailModal, cardHighlight >>

\* Promise.all has settled and init resumes at line 193. It rejects there if one
\* of the promises did. Otherwise it runs without a further await to its end:
\* both collections are assigned, the modules are constructed, the distances
\* computed, the map created, the markers added and the events wired. It ends early
\* where addListingMarkers throws.
InitResumes ==
    LET listings == startup.listings.value
        unis == startup.universities.value
        target == defaultTarget(unis)
    IN  /\ startup.at = "193"
        /\ startup.listings.settled # "pending"
        /\ startup.universities.settled # "pending"
        /\ IF "rejected" \in {startup.listings.settled, startup.universities.settled}
           THEN /\ startup' = [startup EXCEPT !.at = "rejected"]
                /\ UNCHANGED << LISTINGS, UNIVERSITIES, _targetUniversity, targetNames,
                                priceMarkers, lastEvent >>
           ELSE /\ LISTINGS' = listings
                /\ UNIVERSITIES' = unis
                /\ _targetUniversity' = target
                /\ targetNames' = IF target # Null THEN recomputeDistances(listings, target)
                                  ELSE [id \in idSet(listings) |-> <<>>]
                /\ priceMarkers' = addListingMarkers(listings)
                /\ lastEvent' = "init"
                /\ \E callbacks \in {ViewCallbacks, AllCallbacks} :
                      startup' = [startup EXCEPT
                          !.at = IF addListingMarkersThrows(listings) THEN "threw" ELSE "done",
                          !.modules = TRUE,
                          !.mapCenter = mapCenter(target),
                          !.wired = IF addListingMarkersThrows(listings) THEN {}
                                    ELSE callbacks]
        /\ UNCHANGED << state, searchInput, acItems, _searchDebounceTimer, timers, bounds,
                        markerDivs, filteredMarkers, cards, countLabel, placeholder,
                        refreshCalls, burst, stepVars, result, searchMap, createModal, panels,
              mapPopups, detailModal, cardHighlight >>

\* init has returned and the callback is registered.
Wired(callback) == startup.at = "done" /\ callback \in startup.wired

NextInit ==
    \/ \E response \in ListingsResponses : ListingsResponse(response)
    \/ \E response \in UniversitiesResponses : UniversitiesResponse(response)
    \/ InitResumes
    \/ \E v \in Viewports : startup.modules /\ MapMoves(v)
    \/ Wired("onBoundsChange") /\ MapIdle
    \/ \E id \in idSet(priceMarkers) : startup.modules /\ MarkerOnAdd(id)
    \/ \E type \in allTypes(LISTINGS) : Wired("onChange") /\ TypeChange(type)
    \/ \E name \in {UNIVERSITIES[i].name : i \in 1..Len(UNIVERSITIES)} :
          Wired("onTargetChange") /\ TargetSelect(name)

SpecInit == InitStartup /\ [][NextInit]_vars

\* One of the two requests failed.
aRequestFailed ==
    startup.listings.answer \in Failures \/ startup.universities.answer \in Failures

C16_ResultsAppliedTogether ==
    /\ startup.at = "193" =>
          /\ LISTINGS = <<>> /\ UNIVERSITIES = <<>>
          /\ ~startup.modules /\ startup.wired = {}
          /\ priceMarkers = <<>> /\ cards = <<>> /\ refreshCalls = 0
    /\ startup.modules =>
          /\ startup.listings.settled = "fulfilled"
          /\ startup.universities.settled = "fulfilled"
          /\ LISTINGS = startup.listings.value
          /\ UNIVERSITIES = startup.universities.value

\* The listings have arrived, the universities have not: nothing is applied yet.
C16_Witness ==
    /\ startup.at = "193"
    /\ startup.listings.settled = "fulfilled"
    /\ startup.listings.value # <<>>
    /\ startup.universities.settled = "pending"
    /\ LISTINGS = <<>>

\* C18: after addListingMarkers the marker list holds an entry only for listings
\* whose latitude and longitude are finite numbers.
C18_MarkersOnlyForFiniteCoordinates ==
    startup.at = "done" =>
        \A i \in 1..Len(priceMarkers) : priceMarkers[i].lat # NaN /\ priceMarkers[i].lng # NaN

\* What addListingMarkers does place: one marker per listing, the listings
\* without coordinates included.
MarkerForEveryListing ==
    startup.at = "done" => ids(priceMarkers) = ids(LISTINGS)

\* The collections the other specifications start from are what the fetch
\* functions make of the rows of the backend.
ParsedRowsAreTheCollections ==
    /\ fetchListings([kind |-> "ok", data |-> RawCatalog]).value = Catalog
    /\ fetchUniversities([kind |-> "ok", data |-> RawCampuses]).value = Campuses


\* ------------------------------------------------------------------------
\* SpecGeocode: the search box, its debounce and the geocode fallback of the
\* onSearchChange callback
\* ------------------------------------------------------------------------

\* The texts typed into the search box: one that matches a listing, two that match
\* nothing the application knows.
GeocodeTexts == { <<>>, <<"O","j">>, <<"z">>, <<"q">> }

\* The geocoder answers the i-th lookup in flight: _geocodeAndHighlight resumes
\* after its await and runs to its end, and the onSearchChange callback that
\* awaited it returns.
GeocodeCompletes(i, outcome) ==
    /\ i \in 1..Len(searchMap.lookups)
    /\ searchMap' = _geocodeAndHighlight(searchMap, i, outcome)
    /\ lastEvent' = "geocode"
    /\ refreshCalls' = 0
    /\ UNCHANGED << stepVars, result, LISTINGS, startup, panels, mapPopups, detailModal, cardHighlight, createModal, UNIVERSITIES, state,
                    searchInput, acItems, _targetUniversity, _searchDebounceTimer, timers,
                    targetNames, bounds, priceMarkers, markerDivs, filteredMarkers, cards,
                    countLabel, placeholder, burst >>

NextGeocode ==
    \/ \E text \in GeocodeTexts : SearchInput(text)
    \/ Tick
    \/ \E t \in timers : SearchTimerFires(t)
    \/ \E i \in 1..Len(searchMap.lookups) : \E outcome \in GeocodeOutcomes :
          GeocodeCompletes(i, outcome)

SpecGeocode == InitSearch /\ [][NextGeocode]_vars

\* The map shows the result of the lookup that settled last.
showsSettled(sm) ==
    IF sm.settled.outcome = "area"
    THEN /\ sm._searchHighlight = geocoded("area", sm.settled.query)
         /\ sm._searchPin = NoOverlay
         /\ sm.pannedTo = geocoded("area", sm.settled.query)
    ELSE /\ sm._searchPin = geocoded("point", sm.settled.query)
         /\ sm._searchHighlight = NoOverlay
         /\ sm.pannedTo = geocoded("point", sm.settled.query)

\* A step in which a lookup leaves the ones in flight.
aLookupSettles == Len(searchMap'.lookups) < Len(searchMap.lookups)

\* C17: a geocode lookup leaves the lookups in flight only by completing, one at
\* a time, and the result of a lookup that completes is put on the map whether or
\* not a lookup started after it has completed before it: the map then shows the
\* highlight or the pin of the query that completed last.
C17_StaleLookupOverwrites ==
    [][ aLookupSettles =>
          /\ lastEvent' = "geocode"
          /\ Len(searchMap'.lookups) = Len(searchMap.lookups) - 1
          /\ searchMap'.settled.value => showsSettled(searchMap') ]_vars

\* C17: the lookup of "q" was started before the lookup of "z" and completed
\* after it; the search box holds "z" and the map shows the result for "q".
C17_Witness ==
    /\ lastEvent = "geocode"
    /\ state.searchQuery = <<"z">>
    /\ searchMap.settled.query = <<"q">>
    /\ searchMap.settled.overtakenBy = <<"z">>
    /\ searchMap.settled.value
    /\ showsSettled(searchMap)

\* C19: a lookup that fails or finds nothing makes _geocodeAndHighlight resolve to
\* false without throwing, and the step leaves where the map was sent, the search
\* highlight and the search pin as they were.
C19_FailedLookupChangesNothing ==
    [][ (aLookupSettles /\ searchMap'.settled.outcome \in {"no result", "error"}) =>
          /\ searchMap'.settled.value = FALSE
          /\ ~searchMap'.settled.threw
          /\ searchMap'.pannedTo = searchMap.pannedTo
          /\ searchMap'._searchHighlight = searchMap._searchHighlight
          /\ searchMap'._searchPin = searchMap._searchPin ]_vars

\* C19: a lookup has failed while the map showed the highlight of another query.
C19_Witness ==
    /\ lastEvent = "geocode"
    /\ searchMap.settled.outcome = "error"
    /\ ~searchMap.settled.value
    /\ searchMap._searchHighlight.of = "area"
    /\ searchMap._searchHighlight.query # searchMap.settled.query

\* The texts typed into the search box when the rectangle and the pin are watched:
\* one that matches one listing, one that matches two, one that matches them and
\* the listing without coordinates, one that matches a campus only.
HighlightTexts == { <<>>, <<"O","j">>, <<"C","A">>, <<"o">>, <<"u","c">> }

\* Typing, the debounce, and a type filter whose chip brings the 'Clear all' button.
NextHighlight ==
    \/ \E text \in HighlightTexts : SearchInput(text)
    \/ TypeChange("House")
    \/ ResetAll
    \/ Tick
    \/ \E t \in timers : SearchTimerFires(t)

SpecHighlight == InitSearch /\ [][NextHighlight]_vars

\* The step in which the timeout of _emitSearchChange runs the callback.
callbackRuns == lastEvent' = "searchTimer" /\ \E t \in timers : timers' = timers \ {t}

\* What the claim says of the step in which the callback runs, for the matches
\* that satisfy the condition.
overlaysFollow(Condition(_)) ==
    callbackRuns =>
      LET matches == getSearchMatches(state, LISTINGS)
          k == Len(matches)
          query == state.searchQuery
          campus == uniMatch(UNIVERSITIES, query)
          neither == /\ searchMap'._searchHighlight = NoOverlay
                     /\ searchMap'._searchPin = NoOverlay
      IN  /\ (k >= 1 /\ Condition(matches)) =>
                /\ searchMap'._searchHighlight =
                      [of |-> "listings", ids |-> idSet(matches), query |-> <<>>]
                /\ searchMap'.pannedTo = searchMap'._searchHighlight
                /\ (searchMap'._searchPin # NoOverlay) <=> (k = 1)
                /\ k = 1 => searchMap'._searchPin =
                               [of |-> "listing", ids |-> idSet(matches), query |-> <<>>]
          /\ query = <<>> => neither
          /\ (query # <<>> /\ k = 0 /\ campus # Null) =>
                /\ neither
                /\ searchMap'.pannedTo =
                      [of |-> "university", ids |-> {}, query |-> campus.name]
                /\ searchMap'.lookups = searchMap.lookups

any(listings) == TRUE

\* C34: when the debounced callback runs with k matching listings, k >= 1 leaves the
\* rectangle around the matches and a pin exactly when k = 1; an empty query leaves
\* neither; a query without matches that names a campus clears both and pans to
\* the campus, and starts no geocode lookup.
C34_OverlaysFollowTheMatches == [][overlaysFollow(any)]_vars

\* The same for the queries whose matches all have coordinates.
OverlaysFollowLocatedMatches == [][overlaysFollow(located)]_vars

\* The callback has run with listings 1, 2 and 3 matching: the rectangle that is up
\* has NaN edges, it is around none of them.
RectangleAroundNothing ==
    /\ lastEvent = "searchTimer"
    /\ idSet(getSearchMatches(state, LISTINGS)) = {1, 2, 3}
    /\ searchMap._searchHighlight = [of |-> "NaN", ids |-> {}, query |-> <<>>]
    /\ searchMap._searchPin = NoOverlay

\* The callback has run for a query that one listing matches: the rectangle and the
\* pin are on that listing.
OneMatchIsPinned ==
    /\ lastEvent = "searchTimer"
    /\ Len(getSearchMatches(state, LISTINGS)) = 1
    /\ searchMap._searchPin = [of |-> "listing", ids |-> {1}, query |-> <<>>]
    /\ searchMap._searchHighlight = [of |-> "listings", ids |-> {1}, query |-> <<>>]

\* The callback has run for a query that several listings match, after a pin was up.
SeveralMatchesNoPin ==
    /\ lastEvent = "searchTimer"
    /\ Len(getSearchMatches(state, LISTINGS)) >= 2
    /\ searchMap._searchPin = NoOverlay
    /\ searchMap._searchHighlight # NoOverlay

\* The callback has run for a query that names a campus and no listing.
CampusQueryPans ==
    /\ lastEvent = "searchTimer"
    /\ state.searchQuery # <<>>
    /\ searchMap.pannedTo.of = "university"
    /\ searchMap._searchHighlight = NoOverlay

\* The callback has run for the empty query after a rectangle was shown and the
\* search box was emptied.
EmptyQueryClears ==
    /\ lastEvent = "searchTimer"
    /\ state.searchQuery = <<>>
    /\ searchInput = <<>>
    /\ searchMap.pannedTo.of = "listings"
    /\ searchMap._searchHighlight = NoOverlay
    /\ searchMap._searchPin = NoOverlay

\* ------------------------------------------------------------------------
\* SpecCreate: the create modal, its geocode lookup and its POST
\* ------------------------------------------------------------------------

\* _setSubmitting, were it never to clear the flag and enable the button again.
_setSubmittingForGood(modal, loading) ==
    [modal EXCEPT !._submitting = @ \/ loading, !.disabled = @ \/ loading]

\* _setSubmitting(loading): the flag, and the submit button disabled with it.
_setSubmitting(modal, loading) ==
    [modal EXCEPT !._submitting = loading, !.disabled = loading]

\* open(): the modal is shown and _resetForm clears the message and the
\* submitting flag and enables the submit button.
CreateOpen ==
    /\ ~createModal.isOpen
    /\ createModal' = [_setSubmitting(createModal, FALSE) EXCEPT
                          !.isOpen = TRUE, !.error = "",
                          !.handled = [NothingHandled EXCEPT !.event = "open"]]
    /\ UNCHANGED << stepVars, result, LISTINGS, startup, panels, mapPopups, detailModal, cardHighlight, searchMap, UNIVERSITIES, state,
                    searchInput, acItems, _targetUniversity, _searchDebounceTimer, timers,
                    targetNames, bounds, priceMarkers, markerDivs, filteredMarkers, cards,
                    countLabel, placeholder, lastEvent, refreshCalls, burst >>
\* A click on Close, Cancel or the backdrop, or Escape: close().
CreateClose ==
    /\ createModal.isOpen
    /\ createModal' = [createModal EXCEPT
                          !.isOpen = FALSE,
                          !.handled = [NothingHandled EXCEPT !.event = "close"]]
    /\ UNCHANGED << stepVars, result, LISTINGS, startup, panels, mapPopups, detailModal, cardHighlight, searchMap, UNIVERSITIES, state,
                    searchInput, acItems, _targetUniversity, _searchDebounceTimer, timers,
                    targetNames, bounds, priceMarkers, markerDivs, filteredMarkers, cards,
                    countLabel, placeholder, lastEvent, refreshCalls, burst >>
\* onSuccess(cb): the page registers its callback.
CreateOnSuccess ==
    /\ ~createModal._onSuccess
    /\ createModal' = [createModal EXCEPT
                          !._onSuccess = TRUE,
                          !.handled = [NothingHandled EXCEPT !.event = "onSuccess"]]
    /\ UNCHANGED << stepVars, result, LISTINGS, startup, panels, mapPopups, detailModal, cardHighlight, searchMap, UNIVERSITIES, state,
                    searchInput, acItems, _targetUniversity, _searchDebounceTimer, timers,
                    targetNames, bounds, priceMarkers, markerDivs, filteredMarkers, cards,
                    countLabel, placeholder, lastEvent, refreshCalls, burst >>
\* 'submit' on the form, which the disabled submit button holds back:
\* _handleSubmit up to its first await. It returns at once while _submitting is set
\* or when a validation rule fails; otherwise the geocode lookup of the address is
\* in flight.
CreateSubmit(form) ==
    /\ createModal.isOpen
    /\ ~createModal.disabled
    /\ validationError(form) = "" => createModal.started < MaxSubmissions
    /\ createModal' =
          LET seen == [createModal EXCEPT
                          !.handled = [NothingHandled EXCEPT !.event = "submit",
                                                             !.form = form]]
          IN  IF createModal._submitting THEN seen
              ELSE IF validationError(form) # ""
                   THEN [seen EXCEPT !.error = validationError(form)]
                   ELSE [_setSubmitting(seen, TRUE) EXCEPT
                            !.error = "",
                            !.started = @ + 1,
                            !.submissions = Append(@, [form |-> form, at |-> "geocode",
                                                       geocode |-> "pending",
                                                       body |-> Null])]
    /\ UNCHANGED << stepVars, result, LISTINGS, startup, panels, mapPopups, detailModal, cardHighlight, searchMap, UNIVERSITIES, state,
                    searchInput, acItems, _targetUniversity, _searchDebounceTimer, timers,
                    targetNames, bounds, priceMarkers, markerDivs, filteredMarkers, cards,
                    countLabel, placeholder, lastEvent, refreshCalls, burst >>
\* The geocoder answers the lookup of the i-th submission: _handleSubmit resumes,
\* rounds the coordinates or keeps lat and lng null, builds the body and issues the
\* POST.
CreateGeocodeSettles(i, answer) ==
    LET submission == createModal.submissions[i]
        coords == _geocode(answer)
        lat == IF coords.settled = "fulfilled" THEN Num(roundMicro(coords.lat)) ELSE Null
        lng == IF coords.settled = "fulfilled" THEN Num(roundMicro(coords.lng)) ELSE Null
        body == postBody(submission.form, lat, lng)
    IN  /\ submission.at = "geocode"
        /\ createModal' =
              [createModal EXCEPT
                  !.submissions[i] = [submission EXCEPT !.at = "post",
                                                        !.geocode = coords.settled,
                                                        !.body = body],
                  !.posted = @ \cup {[geocode |-> coords.settled, body |-> body]},
                  !.posts = @ + 1,
                  !.handled = [NothingHandled EXCEPT !.event = "geocode",
                                                     !.form = submission.form]]
        /\ UNCHANGED << stepVars, result, LISTINGS, startup, panels, mapPopups, detailModal, cardHighlight, searchMap, UNIVERSITIES, state,
                        searchInput, acItems, _targetUniversity, _searchDebounceTimer, timers,
                        targetNames, bounds, priceMarkers, markerDivs, filteredMarkers, cards,
                        countLabel, placeholder, lastEvent, refreshCalls, burst >>
\* The POST of the i-th submission is answered: _handleSubmit resumes and runs to
\* its end. With nothing thrown the modal is closed and the callback called with
\* the created listing; otherwise the catch block sets the message; the finally
\* block clears the submitting flag and enables the button.
CreatePostSettles(i, response) ==
    LET submission == createModal.submissions[i]
        others == [k \in 1..(Len(createModal.submissions) - 1) |->
                      IF k < i THEN createModal.submissions[k]
                      ELSE createModal.submissions[k + 1]]
        outcome == afterPost(response, createModal._onSuccess)
    IN  /\ submission.at = "post"
        /\ createModal' =
              [_setSubmitting(createModal, FALSE) EXCEPT
                  !.isOpen = IF outcome.closes THEN FALSE ELSE @,
                  !.onSuccessCalls = @ + outcome.calls,
                  !.error = IF outcome.error # "" THEN outcome.error ELSE @,
                  !.submissions = others,
                  !.handled = [event |-> "post", form |-> submission.form,
                               response |-> response, wasOpen |-> createModal.isOpen,
                               calls |-> outcome.calls,
                               arg |-> IF outcome.calls > 0 THEN response.data ELSE Null]]
        /\ UNCHANGED << stepVars, result, LISTINGS, startup, panels, mapPopups, detailModal, cardHighlight, searchMap, UNIVERSITIES, state,
                        searchInput, acItems, _targetUniversity, _searchDebounceTimer, timers,
                        targetNames, bounds, priceMarkers, markerDivs, filteredMarkers, cards,
                        countLabel, placeholder, lastEvent, refreshCalls, burst >>
NextCreate ==
    \/ CreateOpen
    \/ CreateClose
    \/ CreateOnSuccess
    \/ \E form \in Forms : CreateSubmit(form)
    \/ \E i \in 1..Len(createModal.submissions) : \E answer \in GeocoderAnswers :
          CreateGeocodeSettles(i, answer)
    \/ \E i \in 1..Len(createModal.submissions) : \E response \in PostResponses :
          CreatePostSettles(i, response)

SpecCreate == Init /\ [][NextCreate]_vars

\* A geocode lookup that is pending is answered, a POST that is pending is answered.
ALookupSettles ==
    \E i \in 1..Len(createModal.submissions) : \E answer \in GeocoderAnswers :
        CreateGeocodeSettles(i, answer)

APostSettles ==
    \E i \in 1..Len(createModal.submissions) : \E response \in PostResponses :
        CreatePostSettles(i, response)

\* The modal with a geocoder and a backend that answer, be it with a failure.
SpecCreateLive == SpecCreate /\ WF_vars(ALookupSettles) /\ WF_vars(APostSettles)

\* C31: every submission that has passed validation is answered in the end, and
\* when its POST has been answered, with success, an HTTP error or a network
\* failure, _submitting is false and the submit button is enabled.
C31_SubmittingEnds ==
    /\ [](createModal.handled.event = "post" =>
             ~createModal._submitting /\ ~createModal.disabled)
    /\ (createModal.submissions # <<>>) ~>
          (/\ createModal.handled.event = "post"
           /\ createModal.submissions = <<>>
           /\ ~createModal._submitting
           /\ ~createModal.disabled)

\* C31: a POST has failed on the network, and the button is enabled again.
C31_Witness ==
    /\ createModal.handled.event = "post"
    /\ createModal.handled.response.kind = "rejected"
    /\ ~createModal._submitting
    /\ ~createModal.disabled

\* C20: a submission whose geocode lookup has failed is posted all the same, with
\* a body that has neither lat nor lng; every body that was posted has both lat
\* and lng or neither.
C20_FailedGeocodePostsWithoutCoordinates ==
    /\ \A i \in 1..Len(createModal.submissions) :
          createModal.submissions[i].geocode = "rejected" =>
              /\ createModal.submissions[i].at = "post"
              /\ [geocode |-> "rejected", body |-> createModal.submissions[i].body]
                     \in createModal.posted
    /\ \A post \in createModal.posted :
          /\ post.geocode = "rejected" =>
                ("lat" \notin post.body.keys /\ "lng" \notin post.body.keys)
          /\ "lat" \in post.body.keys <=> "lng" \in post.body.keys

\* C20: one listing was posted after its geocode lookup had failed, without lat
\* and lng, and one after a lookup that found the latitude 0, with both.
C20_Witness ==
    /\ \E post \in createModal.posted :
          /\ post.geocode = "rejected"
          /\ {"lat", "lng"} \cap post.body.keys = {}
    /\ \E post \in createModal.posted :
          /\ post.geocode = "fulfilled"
          /\ post.body.lat = Num(0)
          /\ {"lat", "lng"} \subseteq post.body.keys

\* The POST that was answered last has failed: the request was rejected or the
\* status is no 2xx.
thePostFailed ==
    /\ createModal.handled.event = "post"
    /\ createModal.handled.response.kind = "rejected" \/ ~ok(createModal.handled.response)

\* The text made of the field-keyed errors of a response, or of its status.
fieldErrorsOrStatus(response) ==
    IF _formatApiError(response.data) # "" THEN _formatApiError(response.data)
    ELSE "HTTP " \o response.status

\* C21 as stated: after a POST that was answered with a non-2xx status or that
\* failed, the handler has left the modal open, has not called the callback, shows
\* a message made of the field-keyed errors of the response or of the HTTP status,
\* and no more POSTs were sent than submit events were accepted.
C21_FailedPostShowsFieldErrorsOrStatus ==
    thePostFailed =>
        /\ createModal.isOpen = createModal.handled.wasOpen
        /\ createModal.handled.calls = 0
        /\ createModal.error = "Failed to post listing: "
                                   \o fieldErrorsOrStatus(createModal.handled.response)
        /\ createModal.posts <= createModal.started

\* C21, amended: as above, and the message of a request that failed is made of the
\* message of the exception fetch rejected with (there is no response and no
\* status).
C21_FailedPostShowsError ==
    thePostFailed =>
        /\ createModal.isOpen = createModal.handled.wasOpen
        /\ createModal.handled.calls = 0
        /\ createModal.error =
              "Failed to post listing: "
                  \o (IF createModal.handled.response.kind = "rejected"
                      THEN createModal.handled.response.message
                      ELSE fieldErrorsOrStatus(createModal.handled.response))
        /\ createModal.posts <= createModal.started

\* C21: the POST was answered 400 with errors for price and non_field_errors; the
\* modal is open and shows them, the callback that is registered was not called.
C21_Witness ==
    /\ thePostFailed
    /\ createModal.handled.response.status = "400"
    /\ createModal.isOpen
    /\ createModal._onSuccess
    /\ createModal.onSuccessCalls = 0
    /\ createModal.error =
          "Failed to post listing: price: Too high. Not a number. | Owner unknown."

\* C22: after a POST that was answered 2xx with the created listing, the modal is
\* closed and the registered callback was called once, with that listing; after a
\* POST that failed at any step (rejected, no 2xx, unreadable body) it was not
\* called; the callback has never been called more often than POSTs were sent.
C22_SuccessClosesAndCallsOnce ==
    /\ createModal.handled.event = "post" =>
          LET response == createModal.handled.response
          IN  IF ok(response) /\ response.kind = "json"
              THEN /\ ~createModal.isOpen
                   /\ createModal._onSuccess =>
                         /\ createModal.handled.calls = 1
                         /\ createModal.handled.arg = response.data
              ELSE /\ createModal.handled.calls = 0
                   /\ createModal.handled.arg = Null
    /\ createModal.onSuccessCalls <= createModal.posts

\* C22: a POST was answered 201 while the modal was open; the registered callback
\* was called with the created listing and the modal is closed.
C22_Witness ==
    /\ createModal.handled.event = "post"
    /\ createModal.handled.response.status = "201"
    /\ createModal.handled.wasOpen
    /\ ~createModal.isOpen
    /\ createModal.handled.calls = 1
    /\ createModal.handled.arg = Created
    /\ createModal.onSuccessCalls = 1

\* C29 as stated: at most one submission has its geocode lookup or its POST
\* pending.
C29_OneSubmissionInProgress == Len(createModal.submissions) <= 1

\* A required field of the form is missing or invalid, in the words of C30.
aRequiredFieldIsMissing(form) ==
    \/ trim(form.title) = <<>>
    \/ form.type = ""
    \/ form.bedrooms = ""
    \/ form.bathrooms = ""
    \/ ~JsGt(parseFloat(form.price), Num(0))
    \/ trim(form.address) = <<>>
    \/ trim(form.city) = <<>>
    \/ trim(form.zip_code) = <<>>

\* C30: a submit of a form with a required field missing or invalid starts no
\* geocode lookup and sends no POST, leaves a message on display and leaves the
\* form out of the submitting state.
C30_InvalidFormIsNotSubmitted ==
    [][ (/\ createModal'.handled.event = "submit"
         /\ aRequiredFieldIsMissing(createModal'.handled.form)) =>
            /\ createModal'.submissions = createModal.submissions
            /\ createModal'.started = createModal.started
            /\ createModal'.posts = createModal.posts
            /\ createModal'.posted = createModal.posted
            /\ createModal'.error # ""
            /\ ~createModal'._submitting
            /\ ~createModal'.disabled ]_vars

\* C30: a form with a blank city was submitted while the POST of an earlier
\* submission is pending; the message for the city is shown and nothing was
\* started.
C30_Witness ==
    /\ createModal.handled.event = "submit"
    /\ createModal.handled.form.city = <<" ">>
    /\ createModal.error = "City is required."
    /\ ~createModal._submitting
    /\ createModal.started = 1
    /\ createModal.posts = 1

\* ------------------------------------------------------------------------
\* SpecRules: the rules of applyFilters one at a time, and the address parsers
\* ------------------------------------------------------------------------

\* An address whose street number reads like the zip code of another place.
StreetNumberAddress ==
    <<"9","3","0","2","3"," ","O","a","k",","," ","B","r","e","a",","," ","C","A"," ",
      "9","2","8","2","1">>

Zip93023 == <<"9","3","0","2","3">>
Zip92821 == <<"9","2","8","2","1">>

\* A listing of one bedroom that differs from its like in price, address and tags.
RuleListing(price, address, amenities) ==
    Listing(1, price, address, 1, 1, Num(700), "Apartment", amenities, Num(1), Num(1))

\* A zip code in the search box, against addresses that end in it, in another zip,
\* in six digits, in no zip, and that hold it as the street number.
SearchCases ==
    {[listing |-> RuleListing(Num(1500), address, <<>>),
      state |-> [DefaultState EXCEPT !.searchQuery = query]] :
        address \in {Addr1, Addr2, Addr3, Addr4, StreetNumberAddress},
        query \in {Zip93023, Zip92821}}

\* Amenity checkboxes against the tags of a listing.
AmenityCases ==
    {[listing |-> RuleListing(Num(1500), Addr1, tags),
      state |-> [DefaultState EXCEPT !.amenities = selected]] :
        tags \in {<<>>, <<"Pool">>, <<"Pool", "Gym">>, <<"Gym", "WiFi">>},
        selected \in {{}, {"Pool"}, {"Pool", "Gym"}}}

\* Price inputs and the beds select against the price of a listing; a price the
\* backend sends as null is NaN after fetchListings.
PriceCases ==
    {[listing |-> RuleListing(price, Addr1, <<>>),
      state |-> [DefaultState EXCEPT !.priceMin = range[1], !.priceMax = range[2],
                                     !.minBeds = beds]] :
        price \in {Num(1000), Num(1500), Num(2000), NaN},
        range \in {<<Num(0), Infinity>>, <<Num(1500), Infinity>>, <<Num(0), Num(1500)>>,
                   <<Num(0), Num(1000)>>, <<Num(0), Num(2000)>>, <<Num(1000), Num(2000)>>},
        beds \in {0, 1}}

\* The longest text before the tail of a parsed address.
MaxHead == 3

RECURSIVE texts(_, _)
\* The texts of at most n characters over an alphabet.
texts(alphabet, n) ==
    IF n = 0 THEN {<<>>}
    ELSE texts(alphabet, n - 1)
             \cup {Append(t, c) : t \in texts(alphabet, n - 1), c \in alphabet}

\* Addresses for the parsers: a head of letters, commas and spaces, and a tail of
\* five digits, fewer, more, digits before a space or a letter, or nothing.
ParseAddresses ==
    {head \o tail :
        head \in texts({"a", ",", " "}, MaxHead),
        tail \in {<<>>, Zip93023, <<"3","0","2","3">>, <<"1">> \o Zip93023,
                  Zip93023 \o <<" ">>, <<"3","0","2","3","a">>}}

ParseCases ==
    {[listing |-> RuleListing(Num(1500), address, <<>>), state |-> DefaultState] :
        address \in ParseAddresses}

RuleCases == SearchCases \cup AmenityCases \cup PriceCases \cup ParseCases

\* The filter bar holds the filter state of a case, the collection its listing.
InitRules ==
    /\ \E case \in RuleCases :
          /\ LISTINGS = <<case.listing>>
          /\ state = case.state
    /\ UNIVERSITIES = Campuses
    /\ searchInput = state.searchQuery
    /\ acItems = <<>>
    /\ _targetUniversity = defaultTarget(Campuses)
    /\ _searchDebounceTimer = NoTimer
    /\ timers = {}
    /\ targetNames = recomputeDistances(LISTINGS, defaultTarget(Campuses))
    /\ bounds = Undefined
    /\ priceMarkers = addListingMarkers(LISTINGS)
    /\ markerDivs = {}
    /\ filteredMarkers = {}
    /\ cards = <<>>
    /\ countLabel = 0
    /\ placeholder = FALSE
    /\ lastEvent = "init"
    /\ refreshCalls = 0
    /\ burst = NoBurst
    /\ pc = "idle"
    /\ filtered = <<>>
    /\ passingIds = {}
    /\ result = NoResult
    /\ startup = startedUp(LISTINGS, UNIVERSITIES, _targetUniversity)
    /\ searchMap = SearchMapAtStart
    /\ createModal = CreateModalAtStart
    /\ panels = PanelsAtStart
    /\ mapPopups = MapPopupsAtStart(UNIVERSITIES)
    /\ detailModal = DetailModalAtStart
    /\ cardHighlight = CardHighlightAtStart

\* filterManager._parseCity(address) and filterManager._parseZip(address)
CallParse ==
    /\ result = NoResult
    /\ result' = [of |-> "parse",
                  value |-> [city |-> _parseCity(LISTINGS[1].address),
                             zip |-> _parseZip(LISTINGS[1].address)]]
    /\ UNCHANGED << appVars, stepVars >>

NextRules == CallApplyFilters \/ CallParse

SpecRules == InitRules /\ [][NextRules]_vars

\* applyFilters has run and has kept the listing of the collection.
kept == result.of = "applyFilters" /\ result.value = LISTINGS

\* applyFilters has run with the search query alone set, to a five-digit zip.
zipSearched ==
    /\ result.of = "applyFilters"
    /\ Len(state.searchQuery) = ZipLen
    /\ \A i \in 1..ZipLen : state.searchQuery[i] \in Digits
    /\ state = [DefaultState EXCEPT !.searchQuery = state.searchQuery]

\* The last five characters of the address are digits.
endsInZip(address) ==
    /\ Len(address) >= ZipLen
    /\ \A i \in (Len(address) - ZipLen + 1)..Len(address) : address[i] \in Digits

lastFive(address) == SubSeq(address, Len(address) - ZipLen + 1, Len(address))

\* C23 as stated: for a query that is a five-digit zip Z, a listing whose address
\* ends in Z is kept and a listing whose address ends in another five-digit zip
\* is not.
C23_ZipQueryMatchesByZip ==
    zipSearched =>
        LET address == LISTINGS[1].address
        IN  endsInZip(address) => (kept <=> lastFive(address) = state.searchQuery)

\* C23, amended: a listing whose address ends in Z is kept; a listing whose
\* address ends in another five-digit zip is kept iff Z occurs somewhere else in
\* its address.
C23_ZipQueryMatchesByZipOrAddress ==
    zipSearched =>
        LET address == LISTINGS[1].address
        IN  endsInZip(address) =>
                (kept <=> \/ lastFive(address) = state.searchQuery
                          \/ \E i \in 0..(Len(address) - ZipLen) :
                                SubSeq(address, i + 1, i + ZipLen) = state.searchQuery)

\* C23: a search for 93023 has kept the listing at "1 Elm, Ojai, CA 93023".
C23_Witness ==
    /\ zipSearched
    /\ state.searchQuery = Zip93023
    /\ LISTINGS[1].address = Addr1
    /\ kept

\* C24: with the amenity set S alone selected, a listing is kept iff its tags hold
\* every element of S; with S empty every listing is kept.
C24_AmenityRuleNeedsAll ==
    (/\ result.of = "applyFilters"
     /\ state = [DefaultState EXCEPT !.amenities = state.amenities]) =>
        (kept <=> \A a \in state.amenities :
                     \E k \in 1..Len(LISTINGS[1].amenities) : LISTINGS[1].amenities[k] = a)

\* C24: Pool and Gym are selected and a listing that has Pool alone is rejected.
C24_Witness ==
    /\ result.of = "applyFilters"
    /\ state.amenities = {"Pool", "Gym"}
    /\ LISTINGS[1].amenities = <<"Pool">>
    /\ result.value = <<>>

\* applyFilters has run with nothing set but the price range and the beds.
priceFiltered ==
    /\ result.of = "applyFilters"
    /\ state = [DefaultState EXCEPT !.priceMin = state.priceMin,
                                    !.priceMax = state.priceMax,
                                    !.minBeds = state.minBeds]

\* The listing and the filters of the example of C25.
ExampleListing == RuleListing(Num(1500), Addr1, <<>>)

\* C25 as stated: with the price range (and the beds) alone set, a listing is kept
\* iff priceMin <= price <= priceMax (and it has the beds); the listing of 1500
\* and 1 bedroom passes {minBeds 1, priceMax 2000} and fails {priceMax 1000}.
C25_PriceBoundsInclusive ==
    /\ priceFiltered =>
          (kept <=> /\ JsLe(state.priceMin, LISTINGS[1].price)
                    /\ JsLe(LISTINGS[1].price, state.priceMax)
                    /\ LISTINGS[1].bedrooms >= state.minBeds)
    /\ passesFilters([DefaultState EXCEPT !.minBeds = 1, !.priceMax = Num(2000)],
                     ExampleListing)
    /\ ~passesFilters([DefaultState EXCEPT !.priceMax = Num(1000)], ExampleListing)

\* For a listing whose price is a number the price rule is the inclusive range:
\* a price equal to priceMin or to priceMax is kept.
PriceBoundsInclusiveOnNumbers ==
    (priceFiltered /\ LISTINGS[1].price.kind = "number") =>
        (kept <=> /\ state.priceMin.val <= LISTINGS[1].price.val
                  /\ (state.priceMax = Infinity
                         \/ LISTINGS[1].price.val <= state.priceMax.val)
                  /\ LISTINGS[1].bedrooms >= state.minBeds)

\* The places of the commas of an address.
commas(address) == {i \in 1..Len(address) : address[i] = ","}

\* The text between the first comma and the second comma or the end, without the
\* spaces around it; empty when there is no comma.
secondSegment(address) ==
    IF commas(address) = {} THEN <<>>
    ELSE LET first == CHOOSE i \in commas(address) : \A j \in commas(address) : i <= j
             later == {i \in commas(address) : i > first}
             end == IF later = {} THEN Len(address) + 1
                    ELSE CHOOSE i \in later : \A j \in later : i <= j
         IN  trim(SubSeq(address, first + 1, end - 1))

\* C26: the parsed city is the trimmed second comma-separated segment, empty when
\* the address has no comma; the parsed zip is the last five characters when the
\* address ends in five digits, empty otherwise; an empty parse result contains
\* no non-empty query.
C26_ParsersFollowTheAddress ==
    result.of = "parse" =>
        LET address == LISTINGS[1].address
        IN  /\ result.value.city = secondSegment(address)
            /\ result.value.zip = IF endsInZip(address) THEN lastFive(address) ELSE <<>>
            /\ \A query \in {Zip93023, <<"a">>, <<" ">>, <<",">>} :
                  /\ result.value.city = <<>> => ~includes(result.value.city, query)
                  /\ result.value.zip = <<>> => ~includes(result.value.zip, query)

\* C26: ",a," followed by 93023 was parsed: the city is "a" and the zip 93023.
C26_Witness ==
    /\ result.of = "parse"
    /\ LISTINGS[1].address = <<",", "a", ",">> \o Zip93023
    /\ result.value.city = <<"a">>
    /\ result.value.zip = Zip93023

\* ------------------------------------------------------------------------
\* SpecHaversine: haversineDistanceMi in rounded arithmetic
\* ------------------------------------------------------------------------

\* The numbers of haversineDistanceMi are counted in units of 1/Scale, and every
\* operation rounds its exact result to the nearest unit, as the floating-point
\* operations of the code round theirs to the nearest double.
Scale == 10000

\* Math.PI
PI == 31416

\* const R = 3958.8
R == 39588000

\* n / d rounded to the nearest integer, halves away from zero (d > 0).
roundDiv(n, d) ==
    IF n < 0 THEN 0 - ((((0 - n) * 2) + d) \div (2 * d))
    ELSE ((n * 2) + d) \div (2 * d)

magnitude(x) == IF x < 0 THEN 0 - x ELSE x

\* x * y: the product of two numbers, rounded.
mul(x, y) ==
    LET ax == magnitude(x)
        ay == magnitude(y)
        whole == (ax \div Scale) * ay + roundDiv((ax % Scale) * ay, Scale)
    IN  IF (x < 0) = (y < 0) THEN whole ELSE 0 - whole

\* const toRad = (deg) => (deg * Math.PI) / 180, for a whole number of degrees
toRad(deg) == roundDiv(deg * PI, 180)

\* Math.sin at the arguments the coordinates of Latitudes and Longitudes lead to:
\* the sine of the argument, rounded.
SinTable ==
    (0 :> 0) @@ (698 :> 697) @@ (1397 :> 1392) @@ (2269 :> 2250) @@ (2967 :> 2924) @@
    (3665 :> 3584) @@ (5411 :> 5151) @@ (10298 :> 8572) @@ (15708 :> 10000) @@
    (26006 :> 5150)

\* Math.cos at the arguments the coordinates of Latitudes lead to.
CosTable ==
    (0 :> 10000) @@ (1396 :> 9903) @@ (5934 :> 8290)

\* Math.sin(x)
sin(x) == IF x < 0 THEN 0 - SinTable[0 - x] ELSE SinTable[x]

\* Math.cos(x)
cos(x) == CosTable[magnitude(x)]

RECURSIVE newton(_, _)
\* The whole part of the square root of n > 0, from an estimate x above it.
newton(n, x) ==
    LET y == (x + (n \div x)) \div 2
    IN  IF y >= x THEN x ELSE newton(n, y)

\* Math.sqrt(x): NaN below zero, else the root rounded to the nearest unit.
sqrt(x) ==
    IF x = NaN THEN NaN
    ELSE IF x.val < 0 THEN NaN
    ELSE IF x.val = 0 THEN Num(0)
    ELSE LET n == x.val * Scale
             v == newton(n, n)
         IN  Num(IF n - (v * v) > v THEN v + 1 ELSE v)

\* The arc tangent of z, 0 <= z <= 1: z * (PI/4 + 0.273 * (1 - z)).
atan(z) == mul(z, roundDiv(PI, 4)) + mul(mul(2730, z), Scale - z)

\* Math.atan2(y, x) for y >= 0 and x >= 0: NaN when an argument is NaN.
atan2(y, x) ==
    IF y = NaN \/ x = NaN THEN NaN
    ELSE IF y.val = 0 THEN Num(0)
    ELSE IF y.val <= x.val THEN Num(atan(roundDiv(y.val * Scale, x.val)))
    ELSE Num(roundDiv(PI, 2) - atan(roundDiv(x.val * Scale, y.val)))

\* haversineDistanceMi(lat1, lng1, lat2, lng2), the coordinates in whole degrees.
haversineDistanceMi(lat1, lng1, lat2, lng2) ==
    LET dLat == toRad(lat2 - lat1)
        dLng == toRad(lng2 - lng1)
        sinLat == sin(roundDiv(dLat, 2))
        sinLng == sin(roundDiv(dLng, 2))
        a == mul(sinLat, sinLat)
                 + mul(mul(cos(toRad(lat1)), cos(toRad(lat2))), mul(sinLng, sinLng))
        c == atan2(sqrt(Num(a)), sqrt(Num(Scale - a)))
    IN  IF c = NaN THEN NaN ELSE Num(mul(mul(R, 2 * Scale), c.val))

\* Latitudes and longitudes in degrees: the equator, a campus of California, and
\* places that lie opposite each other on the globe.
Latitudes == {-8, 0, 8, 34}
Longitudes == {-118, 0, 62, 180}

\* One listing and one target university, each at a point of the grid.
InitHaversine ==
    /\ \E lat \in Latitudes, lng \in Longitudes :
          LISTINGS = <<Listing(1, Num(1500), Addr1, 1, 1, Num(700), "Apartment", <<>>,
                               Num(lat), Num(lng))>>
    /\ \E lat \in Latitudes, lng \in Longitudes :
          UNIVERSITIES = <<University(CSUN.name, CSUN.fullName, Num(lat), Num(lng))>>
    /\ state = DefaultState
    /\ searchInput = <<>>
    /\ acItems = <<>>
    /\ _targetUniversity = defaultTarget(UNIVERSITIES)
    /\ _searchDebounceTimer = NoTimer
    /\ timers = {}
    /\ targetNames = [id \in idSet(LISTINGS) |-> <<>>]
    /\ bounds = Undefined
    /\ priceMarkers = addListingMarkers(LISTINGS)
    /\ markerDivs = {}
    /\ filteredMarkers = {}
    /\ cards = <<>>
    /\ countLabel = 0
    /\ placeholder = FALSE
    /\ lastEvent = "init"
    /\ refreshCalls = 0
    /\ burst = NoBurst
    /\ pc = "idle"
    /\ filtered = <<>>
    /\ passingIds = {}
    /\ result = NoResult
    /\ startup = startedUp(LISTINGS, UNIVERSITIES, _targetUniversity)
    /\ searchMap = SearchMapAtStart
    /\ createModal = CreateModalAtStart
    /\ panels = PanelsAtStart
    /\ mapPopups = MapPopupsAtStart(UNIVERSITIES)
    /\ detailModal = DetailModalAtStart
    /\ cardHighlight = CardHighlightAtStart

\* recomputeDistances(targetUni): listing._distanceMi and listing._targetName
CallRecomputeDistances ==
    /\ result = NoResult
    /\ result' = [of |-> "recomputeDistances",
                  value |-> haversineDistanceMi(LISTINGS[1].lat.val, LISTINGS[1].lng.val,
                                                _targetUniversity.lat.val,
                                                _targetUniversity.lng.val)]
    /\ targetNames' = recomputeDistances(LISTINGS, _targetUniversity)
    /\ UNCHANGED << LISTINGS, UNIVERSITIES, state, searchInput, acItems,
                    _targetUniversity, _searchDebounceTimer, timers, bounds,
                    priceMarkers, markerDivs, filteredMarkers, cards, countLabel,
                    placeholder, lastEvent, refreshCalls, burst, startup, searchMap,
                    createModal, panels, mapPopups, detailModal, cardHighlight, stepVars >>

NextHaversine == CallRecomputeDistances

SpecHaversine == InitHaversine /\ [][NextHaversine]_vars

\* The distance from the target university back to the listing.
distanceBack ==
    haversineDistanceMi(_targetUniversity.lat.val, _targetUniversity.lng.val,
                        LISTINGS[1].lat.val, LISTINGS[1].lng.val)

\* x == y on numbers: NaN equals nothing.
equalNumbers(x, y) == x # NaN /\ y # NaN /\ x = y

samePoint ==
    /\ LISTINGS[1].lat = _targetUniversity.lat
    /\ LISTINGS[1].lng = _targetUniversity.lng

\* C27: the distance from a to b equals the distance from b to a for all points a
\* and b, and the distance from a point to itself is 0.
C27_HaversineSymmetricAndZeroAtSelf ==
    result.of = "recomputeDistances" =>
        /\ equalNumbers(result.value, distanceBack)
        /\ samePoint => result.value = Num(0)

\* Wherever the distance is a number it is the same both ways, and it is 0 from
\* a point to itself.
HaversineSymmetricWhereDefined ==
    result.of = "recomputeDistances" =>
        /\ result.value = distanceBack
        /\ samePoint => result.value = Num(0)
        /\ result.value # NaN => result.value.val >= 0

\* The distance between two points that lie opposite each other is not a number.
OppositePointsHaveNoDistance ==
    /\ result.of = "recomputeDistances"
    /\ LISTINGS[1].lat = Num(8) /\ LISTINGS[1].lng = Num(0)
    /\ _targetUniversity.lat = Num(-8) /\ _targetUniversity.lng = Num(180)
    /\ result.value = NaN

\* ------------------------------------------------------------------------
\* SpecPanels: the dropdown panels of the filter bar
\* ------------------------------------------------------------------------

\* map.js 672-677: the panel named by the clicked button is closed when it is the
\* current panel, shown otherwise.
toggle(p, name) ==
    IF p._currentPanel = name THEN _closeAllPanels(p) ELSE _showPanel(p, name)

\* 'click' on the filter button of a panel.
FilterButtonClick(name) ==
    /\ acItems' = <<>>
    /\ panels' = [toggle(panels, name) EXCEPT !.clicked = name]
    /\ lastEvent' = "filterButton"
    /\ refreshCalls' = 0
    /\ UNCHANGED << stepVars, result, LISTINGS, startup, mapPopups, detailModal, cardHighlight, searchMap, createModal,
                    UNIVERSITIES, state, searchInput, _targetUniversity,
                    _searchDebounceTimer, timers, targetNames, bounds, priceMarkers,
                    markerDivs, filteredMarkers, cards, countLabel, placeholder, burst >>

\* 'click' on the document outside the filter bar.
DocumentClick ==
    /\ panels' = _closeAllPanels(panels)
    /\ acItems' = <<>>
    /\ lastEvent' = "documentClick"
    /\ refreshCalls' = 0
    /\ UNCHANGED << stepVars, result, LISTINGS, startup, mapPopups, detailModal, cardHighlight, searchMap, createModal,
                    UNIVERSITIES, state, searchInput, _targetUniversity,
                    _searchDebounceTimer, timers, targetNames, bounds, priceMarkers,
                    markerDivs, filteredMarkers, cards, countLabel, placeholder, burst >>

NextPanels ==
    \/ \E name \in PanelNames : FilterButtonClick(name)
    \/ DocumentClick
    \/ SearchFocus
    \/ \E text \in SearchTexts : SearchInput(text)
    \/ HideAutocomplete

SpecPanels == InitSearch /\ [][NextPanels]_vars

\* The panels marked open are the one _currentPanel names, or none; so are the
\* buttons marked active.
panelsAgree(p) ==
    /\ p.open = IF p._currentPanel = NoPanel THEN {} ELSE {p._currentPanel}
    /\ p.active = p.open

\* A click on a filter button has just been handled.
buttonClicked == lastEvent' = "filterButton"

\* C28: at most one panel is open and it is the one _currentPanel names; a click
\* on the button of the open panel closes it, and a click on another button
\* leaves the panel of that button open and no other.
C28_OnePanelOpen ==
    /\ [](panelsAgree(panels) /\ Cardinality(panels.open) <= 1)
    /\ [][buttonClicked =>
             IF panels.open = {panels'.clicked} THEN panels'.open = {}
             ELSE panels'.open = {panels'.clicked}]_vars

\* C28: the price panel, and no other, is open after a click on its button.
C28_Witness ==
    /\ lastEvent = "filterButton"
    /\ panels.clicked = "price"
    /\ panels.open = {"price"}
    /\ panels._currentPanel = "price"
    /\ acItems = <<>>

\* ------------------------------------------------------------------------
\* SpecHover: info windows, university popups and the card highlight
\* ------------------------------------------------------------------------

\* What a hover or a click on a marker or a card leaves alone.
besideHover ==
    << stepVars, result, LISTINGS, startup, panels, detailModal, searchMap, createModal,
       UNIVERSITIES, state, searchInput, acItems, _targetUniversity,
       _searchDebounceTimer, timers, targetNames, bounds, priceMarkers, markerDivs,
       filteredMarkers, cards, countLabel, placeholder, burst >>

\* An id that no listing and no marker has.
MissingId == 9

\* 'mouseover' on a price marker: showInfoWindow(listing.id), then the
\* onMarkerHover callback highlights the card.
MarkerMouseOver(id) ==
    /\ id \in idSet(priceMarkers) \cap markerDivs
    /\ mapPopups' = [showInfoWindow(mapPopups, priceMarkers, markerDivs, id) EXCEPT
                        !.called = [op |-> "showInfoWindow", id |-> <<id>>]]
    /\ cardHighlight' = highlightCard(cardHighlight, cards, id)
    /\ lastEvent' = "markerOver"
    /\ refreshCalls' = 0
    /\ UNCHANGED besideHover

\* 'mouseout' on a price marker: hideInfoWindow(), then the onMarkerHover callback
\* clears the card highlight.
MarkerMouseOut(id) ==
    /\ id \in idSet(priceMarkers) \cap markerDivs
    /\ mapPopups' = [hideInfoWindow(mapPopups, priceMarkers, markerDivs) EXCEPT
                        !.called = [op |-> "hideInfoWindow", id |-> NoId]]
    /\ cardHighlight' = clearHighlight(cardHighlight, cards)
    /\ lastEvent' = "markerOut"
    /\ refreshCalls' = 0
    /\ UNCHANGED besideHover

\* 'mouseenter' on a card: the onCardHover callback calls highlightMarker.
CardMouseEnter(id) ==
    /\ id \in displayed(cards)
    /\ mapPopups' = [highlightMarker(mapPopups, priceMarkers, markerDivs, id) EXCEPT
                        !.called = [op |-> "showInfoWindow", id |-> <<id>>]]
    /\ lastEvent' = "cardEnter"
    /\ refreshCalls' = 0
    /\ UNCHANGED << besideHover, cardHighlight >>

\* 'mouseleave' on a card: the onCardHover callback calls unhighlightMarker.
CardMouseLeave(id) ==
    /\ id \in displayed(cards)
    /\ mapPopups' = [unhighlightMarker(mapPopups, priceMarkers, markerDivs) EXCEPT
                        !.called = [op |-> "hideInfoWindow", id |-> NoId]]
    /\ lastEvent' = "cardLeave"
    /\ refreshCalls' = 0
    /\ UNCHANGED << besideHover, cardHighlight >>

\* mapManager.showInfoWindow(id) for an id that has no marker.
CallShowInfoWindow(id) ==
    /\ id \notin idSet(priceMarkers)
    /\ mapPopups' = [showInfoWindow(mapPopups, priceMarkers, markerDivs, id) EXCEPT
                        !.called = [op |-> "showInfoWindow", id |-> <<id>>]]
    /\ lastEvent' = "showInfoWindow"
    /\ refreshCalls' = 0
    /\ UNCHANGED << besideHover, cardHighlight >>

\* The SDK calls onAdd of a university marker overlay: the marker gets its div.
UniOnAdd(name) ==
    /\ name \in names(UNIVERSITIES) \ mapPopups.uniDivs
    /\ mapPopups' = [mapPopups EXCEPT !.uniDivs = @ \cup {name},
                                      !.called = [op |-> "onAdd", id |-> NoId]]
    /\ lastEvent' = "uniOnAdd"
    /\ refreshCalls' = 0
    /\ UNCHANGED << besideHover, cardHighlight >>

\* 'mouseover', 'mouseout' and 'click' on a university marker.
UniMouseOver(name) ==
    /\ name \in mapPopups.uniDivs
    /\ mapPopups' = [uniMouseOver(mapPopups, name) EXCEPT
                        !.called = [op |-> "uniOver", id |-> NoId]]
    /\ lastEvent' = "uniOver"
    /\ refreshCalls' = 0
    /\ UNCHANGED << besideHover, cardHighlight >>

UniMouseOut(name) ==
    /\ name \in mapPopups.uniDivs
    /\ mapPopups' = [uniMouseOut(mapPopups, name) EXCEPT
                        !.called = [op |-> "uniOut", id |-> NoId]]
    /\ lastEvent' = "uniOut"
    /\ refreshCalls' = 0
    /\ UNCHANGED << besideHover, cardHighlight >>

UniClick(name) ==
    /\ name \in mapPopups.uniDivs
    /\ mapPopups' = [uniClick(mapPopups, priceMarkers, markerDivs, name) EXCEPT
                        !.called = [op |-> "uniClick", id |-> NoId]]
    /\ lastEvent' = "uniClick"
    /\ refreshCalls' = 0
    /\ UNCHANGED << besideHover, cardHighlight >>

NextHover ==
    \/ \E id \in idSet(priceMarkers) : MarkerMouseOver(id)
    \/ \E id \in idSet(priceMarkers) : MarkerMouseOut(id)
    \/ \E id \in displayed(cards) : CardMouseEnter(id)
    \/ \E id \in displayed(cards) : CardMouseLeave(id)
    \/ CallShowInfoWindow(MissingId)
    \/ \E name \in names(UNIVERSITIES) : UniOnAdd(name)
    \/ \E name \in names(UNIVERSITIES) : UniMouseOver(name)
    \/ \E name \in names(UNIVERSITIES) : UniMouseOut(name)
    \/ \E name \in names(UNIVERSITIES) : UniClick(name)
    \/ \E id \in idSet(priceMarkers) : MarkerOnAdd(id)
    \/ \E v \in Viewports : MapMoves(v)
    \/ MapIdle

SpecHover == Init /\ [][NextHover]_vars

\* C32: at most one listing info window is open and at most one price marker is
\* active; activeInfoWindow is set iff activeMarkerId is, and then both belong to
\* the listing whose window is open and whose marker is the active one;
\* showInfoWindow for an id without a marker leaves no info window open.
C32_OneInfoWindow ==
    /\ Cardinality(mapPopups.openWindows) <= 1
    /\ Cardinality(mapPopups.activeMarkers) <= 1
    /\ (mapPopups.activeInfoWindow = NoId) <=> (mapPopups.activeMarkerId = NoId)
    /\ mapPopups.activeInfoWindow = NoId =>
          mapPopups.openWindows = {} /\ mapPopups.activeMarkers = {}
    /\ mapPopups.activeInfoWindow # NoId =>
          /\ mapPopups.activeInfoWindow = mapPopups.activeMarkerId
          /\ mapPopups.openWindows = {mapPopups.activeInfoWindow[1]}
          /\ mapPopups.activeMarkers \subseteq {mapPopups.activeMarkerId[1]}
    /\ (/\ mapPopups.called.op = "showInfoWindow"
        /\ mapPopups.called.id[1] \notin idSet(priceMarkers)) =>
          mapPopups.openWindows = {} /\ mapPopups.uniWindows \cap mapPopups.pinned = {}

\* C32: the window of listing 2 is open and its marker active, after the window
\* of another listing was open.
C32_Witness ==
    /\ mapPopups.called = [op |-> "showInfoWindow", id |-> <<2>>]
    /\ mapPopups.openWindows = {2}
    /\ mapPopups.activeMarkers = {2}
    /\ mapPopups.activeMarkerId = <<2>>
    /\ lastEvent = "cardEnter"

\* C33: at most one university popup is pinned, and while one is pinned no listing
\* info window is open: a click that pins a popup leaves no listing window open,
\* and showInfoWindow leaves no popup pinned.
C33_PinnedPopupAlone ==
    /\ Cardinality(mapPopups.pinned) <= 1
    /\ mapPopups.pinned \subseteq mapPopups.uniWindows
    /\ mapPopups.pinned # {} => mapPopups.openWindows = {} /\ mapPopups.activeInfoWindow = NoId
    /\ mapPopups.called.op = "uniClick" => mapPopups.openWindows = {}
    /\ mapPopups.called.op = "showInfoWindow" => mapPopups.pinned = {}

\* C33: a click has pinned the popup of UCLA.
C33_Witness ==
    /\ mapPopups.called.op = "uniClick"
    /\ mapPopups.pinned = {UCLA.name}
    /\ mapPopups.openWindows = {}

\* C38 as stated: activeCardId is set exactly when a card on display carries the
\* highlight, and then it is the id of that card; at most one card carries it.
C38_ActiveCardIsTheHighlighted ==
    /\ Cardinality(cardHighlight.marked) <= 1
    /\ cardHighlight.marked \subseteq displayed(cards)
    /\ (cardHighlight.activeCardId # NoId) <=> (cardHighlight.marked # {})
    /\ cardHighlight.activeCardId # NoId =>
          cardHighlight.marked = {cardHighlight.activeCardId[1]}

\* At most one card carries the highlight, and it is the card of activeCardId.
HighlightedCardIsActive ==
    /\ Cardinality(cardHighlight.marked) <= 1
    /\ cardHighlight.marked \subseteq displayed(cards)
    /\ cardHighlight.marked # {} =>
          cardHighlight.marked = {cardHighlight.activeCardId[1]}

\* A refresh has rendered the cards while a marker was hovered: activeCardId is
\* still set and no card carries the highlight.
StaleActiveCardId ==
    /\ lastEvent = "mapIdle"
    /\ cardHighlight.activeCardId # NoId
    /\ cardHighlight.marked = {}

\* ------------------------------------------------------------------------
\* SpecMatches: getSearchMatches under every filter state and viewport
\* ------------------------------------------------------------------------

\* The search queries of the filter state: none, one that one listing matches, one
\* that every listing matches, one that no listing matches.
MatchQueries == { <<>>, <<"o","j">>, <<"o">>, <<"q">> }

\* The filter bar holds any filter state, the map any viewport.
InitMatches ==
    /\ LISTINGS = Catalog
    /\ UNIVERSITIES = Campuses
    /\ \E f \in FilterStates : \E q \in MatchQueries :
          state = [f EXCEPT !.searchQuery = q]
    /\ searchInput = state.searchQuery
    /\ acItems = <<>>
    /\ _targetUniversity = defaultTarget(Campuses)
    /\ _searchDebounceTimer = NoTimer
    /\ timers = {}
    /\ targetNames = recomputeDistances(LISTINGS, defaultTarget(Campuses))
    /\ bounds \in Viewports
    /\ priceMarkers = addListingMarkers(LISTINGS)
    /\ markerDivs = {}
    /\ filteredMarkers = {}
    /\ cards = <<>>
    /\ countLabel = 0
    /\ placeholder = FALSE
    /\ lastEvent = "init"
    /\ refreshCalls = 0
    /\ burst = NoBurst
    /\ pc = "idle"
    /\ filtered = <<>>
    /\ passingIds = {}
    /\ result = NoResult
    /\ startup = startedUp(LISTINGS, UNIVERSITIES, _targetUniversity)
    /\ searchMap = SearchMapAtStart
    /\ createModal = CreateModalAtStart
    /\ panels = PanelsAtStart
    /\ mapPopups = MapPopupsAtStart(UNIVERSITIES)
    /\ detailModal = DetailModalAtStart
    /\ cardHighlight = CardHighlightAtStart

\* filterManager.getSearchMatches()
CallGetSearchMatches ==
    /\ result = NoResult
    /\ result' = [of |-> "getSearchMatches", value |-> getSearchMatches(state, LISTINGS)]
    /\ UNCHANGED << appVars, stepVars >>

NextMatches == CallGetSearchMatches

SpecMatches == InitMatches /\ [][NextMatches]_vars

\* C35: getSearchMatches returns the empty list for an empty query, and for a
\* non-empty one exactly the listings of the full collection, in its order, that
\* pass the search rule of applyFilters; the other filter dimensions and the
\* viewport have no part in it.
C35_SearchMatchesBySearchRuleAlone ==
    result.of = "getSearchMatches" =>
        LET Rule1(listing) == ~searchMisses(state, listing)
            searchOnly == [DefaultState EXCEPT !.searchQuery = state.searchQuery]
        IN  /\ state.searchQuery = <<>> => result.value = <<>>
            /\ state.searchQuery # <<>> =>
                  /\ result.value = filter(LISTINGS, Rule1)
                  /\ result.value = applyFilters(searchOnly, LISTINGS)

\* getSearchMatches has returned a listing that the type filter, the price filter
\* and the viewport leave out.
C35_Witness ==
    /\ result.of = "getSearchMatches"
    /\ state.searchQuery = <<"o">>
    /\ state.types = {"House"}
    /\ state.priceMin = Num(1000)
    /\ bounds = Viewport(0, 2, 0, 2)
    /\ result.value = LISTINGS
    /\ applyFilters(state, LISTINGS) = <<LISTINGS[2]>>

\* ------------------------------------------------------------------------
\* SpecModal: the detail modal and its gallery, next to the filter panels
\* ------------------------------------------------------------------------

\* What an event on the detail modal leaves alone.
besideModal ==
    << stepVars, result, LISTINGS, startup, panels, mapPopups, cardHighlight, searchMap,
       createModal, UNIVERSITIES, state, searchInput, acItems, _targetUniversity,
       _searchDebounceTimer, timers, targetNames, bounds, priceMarkers, markerDivs,
       filteredMarkers, cards, countLabel, placeholder, burst, refreshCalls >>

\* openModal(listingId): a click on a card or on a price marker.
OpenModal(listingId) ==
    /\ \E i \in 1..Len(LISTINGS) :
          /\ LISTINGS[i].id = listingId
          /\ detailModal' = open(detailModal, LISTINGS[i])
    /\ lastEvent' = "openModal"
    /\ UNCHANGED besideModal

\* 'click' on #modal-close or on #modal-backdrop.
CloseClick ==
    /\ detailModal' = close(detailModal)
    /\ lastEvent' = "modalClose"
    /\ UNCHANGED besideModal

\* 'keydown' of Escape: close() when the modal is open.
EscapeKey ==
    /\ detailModal.isOpen
    /\ detailModal' = close(detailModal)
    /\ lastEvent' = "escape"
    /\ UNCHANGED besideModal

\* 'click' on #modal-prev: the handler does not ask whether the modal is open.
PrevClick ==
    /\ detailModal' = prev(detailModal, "prev")
    /\ lastEvent' = "modalPrev"
    /\ UNCHANGED besideModal

\* 'click' on #modal-next.
NextClick ==
    /\ detailModal' = next(detailModal, "next")
    /\ lastEvent' = "modalNext"
    /\ UNCHANGED besideModal

\* 'keydown' of ArrowLeft or ArrowRight: nothing when the modal is closed.
ArrowKey(key) ==
    /\ detailModal' = IF ~detailModal.isOpen
                      THEN [detailModal EXCEPT !.called = key, !.threw = FALSE]
                      ELSE IF key = "ArrowLeft" THEN prev(detailModal, key)
                      ELSE next(detailModal, key)
    /\ lastEvent' = "arrowKey"
    /\ UNCHANGED besideModal

NextModal ==
    \/ \E id \in idSet(LISTINGS) : OpenModal(id)
    \/ CloseClick
    \/ EscapeKey
    \/ PrevClick
    \/ NextClick
    \/ \E key \in {"ArrowLeft", "ArrowRight"} : ArrowKey(key)
    \/ \E name \in PanelNames : FilterButtonClick(name)
    \/ DocumentClick

SpecModal == InitSearch /\ [][NextModal]_vars

\* C36: after any sequence of open, close, prev, next and arrow-key events the
\* slide index is an index of a slide, 0 <= _currentSlide < number of slides.
C36_SlideIndexValid == isSlide(detailModal._currentSlide, detailModal.slides)

\* An arrow key was pressed before the modal was ever opened: the index is 0 and
\* there is no slide.
IndexWithoutSlides ==
    /\ detailModal.called = "ArrowRight"
    /\ detailModal._currentSlide = Num(0)
    /\ detailModal.slides = 0

\* #modal-prev was clicked before the modal was ever opened: the index is NaN and
\* _updateSlide has thrown.
IndexIsNaN ==
    /\ detailModal.called = "prev"
    /\ detailModal._currentSlide = NaN
    /\ detailModal.threw

\* Once open() has run the index stays an index of one of the five slides, open
\* leaves it at 0, next and prev wrap around and undo each other.
SlidesCycleOnceOpened ==
    LET m == detailModal
        last == Num(m.slides - 1)
    IN  m.slides # 0 =>
          /\ m.slides = SlideCount
          /\ isSlide(m._currentSlide, m.slides)
          /\ ~m.threw
          /\ m.called = "open" => m._currentSlide = Num(0)
          /\ m._currentSlide = last => next(m, "next")._currentSlide = Num(0)
          /\ m._currentSlide = Num(0) => prev(m, "prev")._currentSlide = last
          /\ prev(next(m, "next"), "prev")._currentSlide = m._currentSlide
          /\ next(prev(m, "prev"), "next")._currentSlide = m._currentSlide

\* The gallery is on its last slide after ArrowLeft from the first.
WrappedToLastSlide ==
    /\ detailModal.isOpen
    /\ detailModal.called = "ArrowLeft"
    /\ detailModal._currentSlide = Num(SlideCount - 1)

\* ------------------------------------------------------------------------
\* SpecMarkers: the target highlight and the elements of the university markers
\* ------------------------------------------------------------------------

\* The target changes while the SDK hands the university markers their elements.
NextMarkers ==
    \/ NextTarget
    \/ \E name \in names(UNIVERSITIES) : HandlerMayRun /\ UniOnAdd(name)

SpecMarkers == InitTarget /\ [][NextMarkers]_vars

\* The marker of the current target has its element.
targetHasDiv ==
    /\ _targetUniversity # Null
    /\ _targetUniversity.name \in mapPopups.uniDivs

\* C37: between the handlers, once the marker of the current target has its
\* element, that marker and no other carries the target highlight, in whatever
\* order the markers got their elements.
C37_TargetMarkerHighlighted ==
    (pc = "idle" /\ targetHasDiv) => mapPopups.uniTarget = {_targetUniversity.name}

\* No marker but that of the current target carries the target highlight.
NoOtherMarkerHighlighted ==
    pc = "idle" =>
        /\ mapPopups.uniTarget \subseteq mapPopups.uniDivs
        /\ _targetUniversity = Null => mapPopups.uniTarget = {}
        /\ _targetUniversity # Null => mapPopups.uniTarget \subseteq {_targetUniversity.name}

\* Startup is over and the marker of the default target has got its element: it
\* does not carry the highlight.
DefaultTargetUnmarked ==
    /\ pc = "idle"
    /\ lastEvent = "uniOnAdd"
    /\ targetHasDiv
    /\ _targetUniversity = defaultTarget(UNIVERSITIES)
    /\ mapPopups.uniTarget = {}

\* The target was changed to a university whose marker had its element: it carries
\* the highlight.
ChosenTargetMarked ==
    /\ pc = "idle"
    /\ targetHasDiv
    /\ mapPopups.uniTarget = {_targetUniversity.name}

============================================================================
